---- MODULE Spec2Model ----
(***************************************************************************)
(* A model of sshgate: the routing registry (package registry) and the     *)
(* bidirectional channel proxy (package gateway).                          *)
(*                                                                         *)
(* The registry keeps two Go maps whose values are POINTERS to DevboxInfo  *)
(* records; the model keeps the records in a heap indexed by address so    *)
(* that aliasing between the two maps, and between the maps and a          *)
(* reference handed to a reader, is part of the state.                     *)
(***************************************************************************)
EXTENDS Integers, Sequences, FiniteSets, TLC

(***************************************************************************)
(* Bounds of the model.                                                    *)
(***************************************************************************)
\* Number of DevboxInfo records that may be live (reachable) at once.
MaxAddr == 2

(***************************************************************************)
(* Program constants of package registry.                                  *)
(***************************************************************************)
DevboxPublicKeyField == "SEALOS_DEVBOX_PUBLIC_KEY"
DevboxPrivateKeyField == "SEALOS_DEVBOX_PRIVATE_KEY"
DevboxPartOfLabel == "app.kubernetes.io/part-of"
DevboxPartOfValue == "devbox"
DevboxOwnerKind == "Devbox"

(***************************************************************************)
(* Input domains: the events the cluster watcher may deliver.              *)
(***************************************************************************)
Namespaces == {"ns1", "ns2"}
DevboxNames == {"db1"}
PodIPs == {"10.0.0.5"}

\* The bytes of a credential field.  An authorized-keys line is
\* "<algo> <base64 blob> <comment>"; NoField stands for a key that is not in
\* the Data map, and a line with an unknown algorithm does not parse.
NoField == [algo |-> "<absent>", blob |-> "", comment |-> ""]
KeyBlobs == {"AAAA1", "AAAA2"}
PrivateKeyBytes == {"PEM1", "not-a-pem"}
NoPrivField == "<absent>"

\* Values of the pointer-typed fields of a DevboxInfo.
NilKey == [algo |-> "", blob |-> ""]
NilSigner == "nil"

\* Events are records of the fields the registry reads.
Secret(namespace, partOf, refs, pub, priv) ==
    [ Namespace |-> namespace, PartOf |-> partOf, OwnerReferences |-> refs,
      PublicKeyData |-> pub, PrivateKeyData |-> priv ]

Pod(namespace, partOf, refs, ip) ==
    [ Namespace |-> namespace, PartOf |-> partOf, OwnerReferences |-> refs,
      PodIP |-> ip ]

DevboxOwner(n) == <<[Kind |-> DevboxOwnerKind, Name |-> n]>>
SecondOwner(n) == <<[Kind |-> "ReplicaSet", Name |-> "rs"],
                    [Kind |-> DevboxOwnerKind, Name |-> n]>>

Ed25519(blob, comment) == [algo |-> "ssh-ed25519", blob |-> blob, comment |-> comment]
GoodPublicKeyBytes == { Ed25519(b, "") : b \in KeyBlobs }

\* Well-formed credential events, and one event for each way a credential
\* event can be malformed or unusual.
GoodSecrets ==
    { Secret(ns, DevboxPartOfValue, DevboxOwner(n), pub, priv) :
        ns \in Namespaces, n \in DevboxNames, pub \in GoodPublicKeyBytes,
        priv \in {"PEM1"} }

OddSecrets ==
    { Secret("ns1", "other", DevboxOwner("db1"), Ed25519("AAAA1", ""), "PEM1"),
      Secret("ns1", "", DevboxOwner("db1"), Ed25519("AAAA2", ""), "PEM1"),
      Secret("ns1", DevboxPartOfValue, DevboxOwner("db1"), NoField, "PEM1"),
      Secret("ns1", DevboxPartOfValue, DevboxOwner("db1"),
             [algo |-> "garbage", blob |-> "", comment |-> ""], "PEM1"),
      Secret("ns1", DevboxPartOfValue, <<>>, Ed25519("AAAA1", ""), "PEM1"),
      Secret("ns1", DevboxPartOfValue,
             <<[Kind |-> "ReplicaSet", Name |-> "rs"]>>, Ed25519("AAAA1", ""), "PEM1"),
      Secret("ns1", DevboxPartOfValue, DevboxOwner("db1"),
             Ed25519("AAAA1", ""), "not-a-pem"),
      Secret("ns1", DevboxPartOfValue, SecondOwner("db1"),
             Ed25519("AAAA1", "me@host"), NoPrivField) }

Secrets == GoodSecrets \cup OddSecrets

\* DeleteSecret reads the namespace and the owner references only.
DeletedSecrets ==
    { Secret(ns, partOf, refs, NoField, NoPrivField) :
        ns \in Namespaces,
        partOf \in {DevboxPartOfValue},
        refs \in {DevboxOwner(n) : n \in DevboxNames} \cup {<<>>} }
    \cup { Secret("ns1", "other", DevboxOwner("db1"), NoField, NoPrivField) }

GoodPods ==
    { Pod(ns, DevboxPartOfValue, DevboxOwner(n), ip) :
        ns \in Namespaces, n \in DevboxNames, ip \in PodIPs \cup {""} }

OddPods ==
    { Pod("ns1", "other", DevboxOwner("db1"), "10.0.0.5"),
      Pod("ns1", DevboxPartOfValue, <<>>, "10.0.0.5"),
      Pod("ns1", DevboxPartOfValue, <<>>, ""),
      Pod("ns1", DevboxPartOfValue, SecondOwner("db1"), "10.0.0.5") }

Pods == GoodPods \cup OddPods

Addrs == 1 .. MaxAddr

VARIABLES
    heap,                \* address -> DevboxInfo, the records reachable now
    fingerprintToDevbox, \* Registry.fingerprintToDevbox: fingerprint -> address
    devboxToInfo,        \* Registry.devboxToInfo: "ns/name" -> address
    held,                \* the reference a reader got from its last lookup
    lastOp,              \* the registry operation that produced this state
    everShared,          \* some AddSecret gave a devbox a key another one held
    rev,                 \* the revision of proxyChannelWithRequests that runs
    pc,                  \* goroutine -> where it is in the proxy
    cur,                 \* goroutine -> the request or read result it holds
    ch,                  \* side -> the gateway's end of that SSH channel
    peer,                \* side -> what the remote end may still send
    done,                \* part_003: the channel closed by closeDone
    cb,                  \* the public-key callback: its call, position, result
    gp,                  \* the global-request pump of a PublicKey-mode session
    ag,                  \* a session channel of an AgentForwarding-mode session
    mn,                  \* the process: main, its informers and its listener
    hc,                  \* connection -> its Gateway.HandleConnection worker
    hk,                  \* replica -> its environment and the host key it loaded
    nc                   \* the channels a client opens on one PublicKey-mode connection

registryVars == <<heap, fingerprintToDevbox, devboxToInfo, held, lastOp, everShared>>
proxyVars == <<rev, pc, cur, ch, peer, done>>
sessionVars == <<cb, gp, ag>>
gatewayVars == <<proxyVars, sessionVars>>
processVars == <<mn, hc, hk, nc>>
vars == <<registryVars, gatewayVars, processVars>>

(***************************************************************************)
(* Pure helpers.                                                           *)
(***************************************************************************)
\* ssh.ParseAuthorizedKey: the key is the algorithm and the blob; the
\* comment is dropped.
ParseAuthorizedKey(data) ==
    IF data.algo = "ssh-ed25519"
    THEN [ok |-> TRUE, key |-> [algo |-> data.algo, blob |-> data.blob]]
    ELSE [ok |-> FALSE, key |-> NilKey]

\* ssh.FingerprintSHA256: "SHA256:" followed by the encoded hash of the blob
\* (the hash is modelled as collision free).
FingerprintSHA256(key) == "SHA256:" \o key.blob

\* ssh.ParsePrivateKey
ParsePrivateKey(data) ==
    IF data = "PEM1"
    THEN [ok |-> TRUE, signer |-> "signer-of-PEM1"]
    ELSE [ok |-> FALSE, signer |-> NilSigner]

RECURSIVE getDevboxNameFromOwnerReferences(_)
getDevboxNameFromOwnerReferences(refs) ==
    IF refs = <<>> THEN ""
    ELSE IF Head(refs).Kind = DevboxOwnerKind THEN Head(refs).Name
    ELSE getDevboxNameFromOwnerReferences(Tail(refs))

\* fmt.Sprintf("%s/%s", namespace, devboxName)
DevboxKey(namespace, devboxName) == namespace \o "/" \o devboxName

\* A Go map: lookup, store and delete.
MapPut(m, k, v) == [x \in DOMAIN m \cup {k} |-> IF x = k THEN v ELSE m[x]]
MapDelete(m, k) == [x \in DOMAIN m \ {k} |-> m[x]]
Range(m) == { m[x] : x \in DOMAIN m }

EmptyMap == [x \in {} |-> 0]
NoRef == [addr |-> 0, seen |-> <<>>]
NoOp == [op |-> "New", wrote |-> FALSE, same |-> FALSE]

\* The registry as one value.
Reg == [heap |-> heap, fp |-> fingerprintToDevbox, name |-> devboxToInfo]

\* The addresses a Go program can still reach: the garbage collector keeps
\* exactly these records.
Reachable(reg, ref) ==
    Range(reg.fp) \cup Range(reg.name) \cup (IF ref.addr = 0 THEN {} ELSE {ref.addr})

Collect(reg, ref) ==
    [reg EXCEPT !.heap = [a \in DOMAIN reg.heap \cap Reachable(reg, ref) |-> reg.heap[a]]]

\* &DevboxInfo{...}: the lowest free address.
CanAllocate(reg) == DOMAIN reg.heap # Addrs
NewAddr(reg) == CHOOSE a \in Addrs \ DOMAIN reg.heap :
                    \A b \in Addrs \ DOMAIN reg.heap : a <= b

NewDevboxInfo(namespace, devboxName) ==
    [ Namespace |-> namespace, DevboxName |-> devboxName, PodIP |-> "",
      PublicKey |-> NilKey, PrivateKey |-> NilSigner, Fingerprint |-> "" ]

(***************************************************************************)
(* Registry.AddSecret                                                      *)
(***************************************************************************)
\* AddSecret finds nothing wrong with any credential.
AddSecretErrorNone(secret) == ""

\* The error AddSecret returns ("" for nil), decided before the lock is taken.
AddSecretError(secret) ==
    IF secret.PartOf # DevboxPartOfValue THEN ""
    ELSE IF secret.PublicKeyData = NoField THEN "missing public key"
    ELSE IF ~ParseAuthorizedKey(secret.PublicKeyData).ok THEN "failed to parse public key"
    ELSE IF getDevboxNameFromOwnerReferences(secret.OwnerReferences) = "" THEN "no Devbox owner"
    ELSE ""

\* TRUE when AddSecret reaches its critical section.
AddSecretWrites(secret) ==
    /\ secret.PartOf = DevboxPartOfValue
    /\ AddSecretError(secret) = ""

AddSecretPrivateKey(secret) ==
    IF secret.PrivateKeyData # NoPrivField
    THEN ParsePrivateKey(secret.PrivateKeyData).signer
    ELSE NilSigner

\* Mutant of AddSecretLocked: the record is updated but never entered in the
\* fingerprint index.
AddSecretLockedNoIndex(reg, secret) ==
    LET publicKey == ParseAuthorizedKey(secret.PublicKeyData).key
        devboxName == getDevboxNameFromOwnerReferences(secret.OwnerReferences)
        key == DevboxKey(secret.Namespace, devboxName)
        exists == key \in DOMAIN reg.name
        info == IF exists THEN reg.name[key] ELSE NewAddr(reg)
        rec0 == IF exists THEN reg.heap[info]
                ELSE NewDevboxInfo(secret.Namespace, devboxName)
        rec1 == [rec0 EXCEPT !.PublicKey = publicKey,
                             !.PrivateKey = AddSecretPrivateKey(secret),
                             !.Fingerprint = FingerprintSHA256(publicKey)]
    IN  [ heap |-> MapPut(reg.heap, info, rec1),
          fp |-> reg.fp,
          name |-> MapPut(reg.name, key, info) ]

\* Mutant of AddSecretLocked: an existing record's previous fingerprint is
\* deleted from the index after the new one is stored, also when the two are
\* the same.
AddSecretLockedRetiresCurrent(reg, secret) ==
    LET publicKey == ParseAuthorizedKey(secret.PublicKeyData).key
        fingerprint == FingerprintSHA256(publicKey)
        devboxName == getDevboxNameFromOwnerReferences(secret.OwnerReferences)
        key == DevboxKey(secret.Namespace, devboxName)
        exists == key \in DOMAIN reg.name
        info == IF exists THEN reg.name[key] ELSE NewAddr(reg)
        rec0 == IF exists THEN reg.heap[info]
                ELSE NewDevboxInfo(secret.Namespace, devboxName)
        rec1 == [rec0 EXCEPT !.PublicKey = publicKey,
                             !.PrivateKey = AddSecretPrivateKey(secret),
                             !.Fingerprint = fingerprint]
        fp1 == MapPut(reg.fp, fingerprint, info)
    IN  [ heap |-> MapPut(reg.heap, info, rec1),
          fp |-> IF exists THEN MapDelete(fp1, rec0.Fingerprint) ELSE fp1,
          name |-> MapPut(reg.name, key, info) ]

\* The critical section of AddSecret (lines 108-125) on registry value reg.
AddSecretLocked(reg, secret) ==
    LET publicKey == ParseAuthorizedKey(secret.PublicKeyData).key
        fingerprint == FingerprintSHA256(publicKey)
        devboxName == getDevboxNameFromOwnerReferences(secret.OwnerReferences)
        key == DevboxKey(secret.Namespace, devboxName)
        exists == key \in DOMAIN reg.name
        info == IF exists THEN reg.name[key] ELSE NewAddr(reg)
        rec0 == IF exists THEN reg.heap[info]
                ELSE NewDevboxInfo(secret.Namespace, devboxName)
        rec1 == [rec0 EXCEPT !.PublicKey = publicKey,
                             !.PrivateKey = AddSecretPrivateKey(secret),
                             !.Fingerprint = fingerprint]
    IN  [ heap |-> MapPut(reg.heap, info, rec1),
          fp |-> MapPut(reg.fp, fingerprint, info),
          name |-> MapPut(reg.name, key, info) ]

AddSecretResult(reg, secret) ==
    IF AddSecretWrites(secret) THEN AddSecretLocked(reg, secret) ELSE reg

\* Line 111 creates a record only when the key is new.
AddSecretAllocates(reg, secret) ==
    /\ AddSecretWrites(secret)
    /\ DevboxKey(secret.Namespace,
                 getDevboxNameFromOwnerReferences(secret.OwnerReferences))
          \notin DOMAIN reg.name

AddSecret(secret) ==
    LET new == Collect(AddSecretResult(Reg, secret), held)
    IN  /\ AddSecretAllocates(Reg, secret) => CanAllocate(Reg)
        /\ heap' = new.heap
        /\ fingerprintToDevbox' = new.fp
        /\ devboxToInfo' = new.name
        /\ UNCHANGED held

(***************************************************************************)
(* Registry.DeleteSecret                                                   *)
(***************************************************************************)
DeleteSecretResult(reg, secret) ==
    LET devboxName == getDevboxNameFromOwnerReferences(secret.OwnerReferences)
        key == DevboxKey(secret.Namespace, devboxName)
    IN  IF devboxName = "" THEN reg
        ELSE IF key \in DOMAIN reg.name
        THEN [ reg EXCEPT !.fp = MapDelete(reg.fp, reg.heap[reg.name[key]].Fingerprint),
                          !.name = MapDelete(reg.name, key) ]
        ELSE reg

DeleteSecret(secret) ==
    LET new == Collect(DeleteSecretResult(Reg, secret), held)
    IN  /\ heap' = new.heap
        /\ fingerprintToDevbox' = new.fp
        /\ devboxToInfo' = new.name
        /\ UNCHANGED held

(***************************************************************************)
(* Registry.UpdatePod                                                      *)
(***************************************************************************)
UpdatePodError(pod) ==
    IF pod.PartOf # DevboxPartOfValue THEN ""
    ELSE IF getDevboxNameFromOwnerReferences(pod.OwnerReferences) = "" THEN "no Devbox owner"
    ELSE ""

\* The test of pod.Status.PodIP is left out.
UpdatePodWritesAnyIP(pod) ==
    /\ pod.PartOf = DevboxPartOfValue
    /\ getDevboxNameFromOwnerReferences(pod.OwnerReferences) # ""

UpdatePodWrites(pod) ==
    /\ pod.PartOf = DevboxPartOfValue
    /\ getDevboxNameFromOwnerReferences(pod.OwnerReferences) # ""
    /\ pod.PodIP # ""

\* The pod's record is made anew each time.
UpdatePodLockedFresh(reg, pod) ==
    LET devboxName == getDevboxNameFromOwnerReferences(pod.OwnerReferences)
        key == DevboxKey(pod.Namespace, devboxName)
        exists == key \in DOMAIN reg.name
        info == IF exists THEN reg.name[key] ELSE NewAddr(reg)
        rec0 == NewDevboxInfo(pod.Namespace, devboxName)
    IN  [ reg EXCEPT !.heap = MapPut(reg.heap, info, [rec0 EXCEPT !.PodIP = pod.PodIP]),
                     !.name = MapPut(reg.name, key, info) ]

UpdatePodLocked(reg, pod) ==
    LET devboxName == getDevboxNameFromOwnerReferences(pod.OwnerReferences)
        key == DevboxKey(pod.Namespace, devboxName)
        exists == key \in DOMAIN reg.name
        info == IF exists THEN reg.name[key] ELSE NewAddr(reg)
        rec0 == IF exists THEN reg.heap[info]
                ELSE NewDevboxInfo(pod.Namespace, devboxName)
    IN  [ reg EXCEPT !.heap = MapPut(reg.heap, info, [rec0 EXCEPT !.PodIP = pod.PodIP]),
                     !.name = MapPut(reg.name, key, info) ]

UpdatePodResult(reg, pod) ==
    IF UpdatePodWrites(pod) THEN UpdatePodLocked(reg, pod) ELSE reg

UpdatePodAllocates(reg, pod) ==
    /\ UpdatePodWrites(pod)
    /\ DevboxKey(pod.Namespace, getDevboxNameFromOwnerReferences(pod.OwnerReferences))
          \notin DOMAIN reg.name

UpdatePod(pod) ==
    LET new == Collect(UpdatePodResult(Reg, pod), held)
    IN  /\ UpdatePodAllocates(Reg, pod) => CanAllocate(Reg)
        /\ heap' = new.heap
        /\ fingerprintToDevbox' = new.fp
        /\ devboxToInfo' = new.name
        /\ UNCHANGED held

(***************************************************************************)
(* Registry.DeletePod                                                      *)
(***************************************************************************)
\* Mutant of DeletePodResult: the pod's record also loses its entry in the
\* fingerprint index.
DeletePodResultDropsCredential(reg, pod) ==
    LET devboxName == getDevboxNameFromOwnerReferences(pod.OwnerReferences)
        key == DevboxKey(pod.Namespace, devboxName)
    IN  IF devboxName = "" THEN reg
        ELSE IF key \in DOMAIN reg.name
        THEN [ reg EXCEPT !.heap[reg.name[key]].PodIP = "",
                          !.fp = MapDelete(reg.fp, reg.heap[reg.name[key]].Fingerprint) ]
        ELSE reg

DeletePodResult(reg, pod) ==
    LET devboxName == getDevboxNameFromOwnerReferences(pod.OwnerReferences)
        key == DevboxKey(pod.Namespace, devboxName)
    IN  IF devboxName = "" THEN reg
        ELSE IF key \in DOMAIN reg.name
        THEN [ reg EXCEPT !.heap[reg.name[key]].PodIP = "" ]
        ELSE reg

DeletePod(pod) ==
    LET new == Collect(DeletePodResult(Reg, pod), held)
    IN  /\ heap' = new.heap
        /\ fingerprintToDevbox' = new.fp
        /\ devboxToInfo' = new.name
        /\ UNCHANGED held

(***************************************************************************)
(* Registry.GetByFingerprint and Registry.GetDevboxInfo.  The reader keeps *)
(* the returned pointer (held.addr) and remembers the fields it read       *)
(* through it at that moment (held.seen).                                  *)
(***************************************************************************)
LookupByFingerprint(reg, fingerprint) ==
    IF fingerprint \in DOMAIN reg.fp
    THEN [ok |-> TRUE, info |-> reg.fp[fingerprint]]
    ELSE [ok |-> FALSE, info |-> 0]

LookupByName(reg, namespace, devboxName) ==
    IF DevboxKey(namespace, devboxName) \in DOMAIN reg.name
    THEN [ok |-> TRUE, info |-> reg.name[DevboxKey(namespace, devboxName)]]
    ELSE [ok |-> FALSE, info |-> 0]

Fingerprints == { FingerprintSHA256(ParseAuthorizedKey(d).key) : d \in GoodPublicKeyBytes }

Hold(r) ==
    LET ref == IF r.ok THEN [addr |-> r.info, seen |-> heap[r.info]] ELSE NoRef
        new == Collect(Reg, ref)
    IN  /\ held' = ref
        /\ heap' = new.heap
        /\ UNCHANGED <<fingerprintToDevbox, devboxToInfo>>

GetByFingerprint(fingerprint) == Hold(LookupByFingerprint(Reg, fingerprint))

GetDevboxInfo(namespace, devboxName) == Hold(LookupByName(Reg, namespace, devboxName))

(***************************************************************************)
(* History: the operation that produced the current state, and whether it *)
(* left the registry as it was.                                            *)
(***************************************************************************)
EventKey(e) ==
    DevboxKey(e.Namespace, getDevboxNameFromOwnerReferences(e.OwnerReferences))

Registered(e) ==
    /\ getDevboxNameFromOwnerReferences(e.OwnerReferences) # ""
    /\ EventKey(e) \in DOMAIN devboxToInfo

Did(op, wrote) ==
    lastOp' = [ op |-> op,
                wrote |-> wrote,
                same |-> /\ heap' = heap
                         /\ fingerprintToDevbox' = fingerprintToDevbox
                         /\ devboxToInfo' = devboxToInfo ]

\* The credential event gives its devbox a public key that another
\* registered devbox holds at that moment.
SharesKey(secret) ==
    /\ AddSecretWrites(secret)
    /\ \E k \in DOMAIN devboxToInfo \ {EventKey(secret)} :
          heap[devboxToInfo[k]].Fingerprint
            = FingerprintSHA256(ParseAuthorizedKey(secret.PublicKeyData).key)

(***************************************************************************)
(* registry.New, and the specification of the registry under its writers.  *)
(***************************************************************************)
InitRegistry ==
    /\ heap = EmptyMap
    /\ fingerprintToDevbox = EmptyMap
    /\ devboxToInfo = EmptyMap
    /\ held = NoRef
    /\ lastOp = NoOp
    /\ everShared = FALSE

\* No channel is being proxied.
NoProxy ==
    /\ rev = ""
    /\ pc = <<>>
    /\ cur = <<>>
    /\ ch = <<>>
    /\ peer = <<>>
    /\ done = FALSE

\* &ssh.Permissions{Extensions: ..., ExtraData: ...} and the nil pointer.
Permissions(extensions, extraData) ==
    [isNil |-> FALSE, Extensions |-> extensions, ExtraData |-> extraData]
NilPermissions == [isNil |-> TRUE, Extensions |-> EmptyMap, ExtraData |-> EmptyMap]

\* The public-key callback has not been called.  A call keeps the function
\* that runs, its arguments, its locals and what it returned.
IdleCallback ==
    [ pc |-> "idle", fn |-> "", user |-> <<>>, key |-> NilKey,
      matched |-> FALSE,    \* GetByFingerprint found the presented key
      resolved |-> FALSE,   \* a lookup returned a DevboxInfo
      username |-> "", fullNamespace |-> "", devboxName |-> "",
      mode |-> 0,           \* the AuthMode of the branch taken
      podIP |-> "<unread>", \* info.PodIP as the callback read it
      perms |-> NilPermissions, err |-> "",
      backendAddr |-> "<unbuilt>" ]  \* the address the session worker dials

\* No global-request pump runs.
NoGlobalRequests == [pc |-> "none"]

\* No session channel is open.
NoSessionChannel == [pc |-> "none"]

\* No connection is being authenticated or served.
NoSession == cb = IdleCallback /\ gp = NoGlobalRequests /\ ag = NoSessionChannel

\* The process is not looked at.
NoProcess == mn = [pc |-> "none"] /\ hc = <<>> /\ hk = <<>> /\ nc = <<>>

Init == InitRegistry /\ NoProxy /\ NoSession /\ NoProcess

Next ==
    \/ \E secret \in Secrets :
          /\ AddSecret(secret)
          /\ Did("AddSecret", AddSecretWrites(secret))
          /\ everShared' = (everShared \/ SharesKey(secret))
          /\ UNCHANGED <<gatewayVars, processVars>>
    \/ \E secret \in DeletedSecrets :
          /\ DeleteSecret(secret)
          /\ Did("DeleteSecret", Registered(secret))
          /\ UNCHANGED <<everShared, gatewayVars, processVars>>
    \/ \E pod \in Pods :
          /\ UpdatePod(pod)
          /\ Did("UpdatePod", UpdatePodWrites(pod))
          /\ UNCHANGED <<everShared, gatewayVars, processVars>>
    \/ \E pod \in Pods :
          /\ DeletePod(pod)
          /\ Did("DeletePod", Registered(pod))
          /\ UNCHANGED <<everShared, gatewayVars, processVars>>

Spec == Init /\ [][Next]_vars

(***************************************************************************)
(* The registry with a reader that keeps the reference it was given.       *)
(***************************************************************************)
NextReaders ==
    \/ \E secret \in Secrets :
          AddSecret(secret) /\ UNCHANGED <<lastOp, everShared, gatewayVars, processVars>>
    \/ \E secret \in DeletedSecrets :
          DeleteSecret(secret) /\ UNCHANGED <<lastOp, everShared, gatewayVars, processVars>>
    \/ \E pod \in Pods :
          UpdatePod(pod) /\ UNCHANGED <<lastOp, everShared, gatewayVars, processVars>>
    \/ \E pod \in Pods :
          DeletePod(pod) /\ UNCHANGED <<lastOp, everShared, gatewayVars, processVars>>
    \/ \E fingerprint \in Fingerprints :
          GetByFingerprint(fingerprint) /\ UNCHANGED <<lastOp, everShared, gatewayVars, processVars>>
    \/ \E namespace \in Namespaces, devboxName \in DevboxNames :
          GetDevboxInfo(namespace, devboxName)
          /\ UNCHANGED <<lastOp, everShared, gatewayVars, processVars>>

SpecReaders == Init /\ [][NextReaders]_vars

(***************************************************************************)
(* Claims about the registry.                                              *)
(***************************************************************************)
\* The record a step's event is about, before the step.
InfoOf(e) == devboxToInfo[EventKey(e)]

\* C1: key rotation retires the old fingerprint.  After AddSecret gives a
\* registered devbox a public key other than the stored one, a lookup by the
\* old fingerprint does not return the updated record (it is not found, or
\* it finds another devbox's record).
RotationRetiresOldFingerprint ==
    [][ \A secret \in Secrets :
          ( /\ AddSecret(secret)
            /\ AddSecretWrites(secret)
            /\ Registered(secret)
            /\ heap[InfoOf(secret)].Fingerprint # ""
            /\ heap[InfoOf(secret)].Fingerprint
                 # FingerprintSHA256(ParseAuthorizedKey(secret.PublicKeyData).key) )
          => LookupByFingerprint(Reg', heap[InfoOf(secret)].Fingerprint).info
               # InfoOf(secret) ]_vars

\* C2: every fingerprint in the fingerprint index is the fingerprint of the
\* public key of the record it maps to, and that record is in the
\* (namespace, devboxName) index.
FingerprintIndexSound ==
    \A f \in DOMAIN fingerprintToDevbox :
        /\ FingerprintSHA256(heap[fingerprintToDevbox[f]].PublicKey) = f
        /\ fingerprintToDevbox[f] \in Range(devboxToInfo)

\* C3 as claimed: every record of the name index with a non-empty
\* fingerprint is the record the fingerprint index returns for it, also when
\* a key is given to several devboxes.
NameIndexRecordsAreIndexed ==
    \A k \in DOMAIN devboxToInfo :
        heap[devboxToInfo[k]].Fingerprint # ""
        => LookupByFingerprint(Reg, heap[devboxToInfo[k]].Fingerprint)
             = [ok |-> TRUE, info |-> devboxToInfo[k]]

\* C3 as amended: the same, as long as no AddSecret has given a devbox a
\* public key that another registered devbox held at that moment.
NameIndexRecordsAreIndexedUnlessShared ==
    ~everShared => NameIndexRecordsAreIndexed

\* C3 witness: no key was ever shared, two devboxes are registered, and one
\* of them has rotated its key (its old fingerprint is still in the index)
\* and is found by its current fingerprint.
IndexedAfterRotation ==
    /\ ~everShared
    /\ Cardinality(DOMAIN devboxToInfo) = 2
    /\ \E k \in DOMAIN devboxToInfo, f \in DOMAIN fingerprintToDevbox :
          /\ fingerprintToDevbox[f] = devboxToInfo[k]
          /\ heap[devboxToInfo[k]].Fingerprint \notin {"", f}
          /\ LookupByFingerprint(Reg, heap[devboxToInfo[k]].Fingerprint)
               = [ok |-> TRUE, info |-> devboxToInfo[k]]

\* C4: DeleteSecret of a registered devbox leaves no entry for its record in
\* either index: the name lookup is not-found and no fingerprint, current or
\* earlier, maps to the record.
DeleteSecretRemovesFromBothIndexes ==
    [][ \A secret \in DeletedSecrets :
          (DeleteSecret(secret) /\ Registered(secret))
          => /\ ~LookupByName(Reg', secret.Namespace,
                               getDevboxNameFromOwnerReferences(secret.OwnerReferences)).ok
             /\ InfoOf(secret) \notin Range(fingerprintToDevbox') ]_vars

\* C5: DeletePod for a registered devbox changes nothing but that record's
\* PodIP, which becomes empty: both indexes and every other field of every
\* record are as before, so every fingerprint lookup that succeeded still
\* succeeds and returns the same record.
DeletePodClearsOnlyPodIP ==
    [][ \A pod \in Pods :
          (DeletePod(pod) /\ Registered(pod))
          => /\ fingerprintToDevbox' = fingerprintToDevbox
             /\ devboxToInfo' = devboxToInfo
             /\ heap' = [heap EXCEPT ![InfoOf(pod)].PodIP = ""]
             /\ \A f \in DOMAIN fingerprintToDevbox :
                   /\ LookupByFingerprint(Reg', f) = LookupByFingerprint(Reg, f)
                   /\ fingerprintToDevbox[f] = InfoOf(pod)
                        => heap'[LookupByFingerprint(Reg', f).info].PodIP = "" ]_vars

\* C5 witness: DeletePod has just cleared the pod IP of the only record,
\* which has a credential and is still found by its fingerprint.
PodDeletedCredentialKept ==
    /\ lastOp = [op |-> "DeletePod", wrote |-> TRUE, same |-> FALSE]
    /\ \E k \in DOMAIN devboxToInfo :
          /\ DOMAIN heap = {devboxToInfo[k]}
          /\ heap[devboxToInfo[k]].PodIP = ""
          /\ heap[devboxToInfo[k]].PrivateKey # NilSigner
          /\ LookupByFingerprint(Reg, heap[devboxToInfo[k]].Fingerprint)
               = [ok |-> TRUE, info |-> devboxToInfo[k]]

\* C6: AddSecret is idempotent.  In the state an AddSecret call produced,
\* the same call produces that state again.  (Concurrent callers run their
\* critical sections one after the other.)
AddSecretIdempotent ==
    [][ \A secret \in Secrets :
          AddSecret(secret) => AddSecretResult(Reg', secret) = Reg' ]_vars

\* C6 witness: an AddSecret that reached its critical section and left the
\* registry as it found it, with the devbox's key in the fingerprint index.
AddSecretReapplied ==
    /\ lastOp = [op |-> "AddSecret", wrote |-> TRUE, same |-> TRUE]
    /\ \E k \in DOMAIN devboxToInfo :
          LookupByFingerprint(Reg, heap[devboxToInfo[k]].Fingerprint).ok

\* C7: the fields read through a reference returned by GetByFingerprint or
\* GetDevboxInfo stay as they were when it was returned.
HeldReferenceUnchanged ==
    held.addr # 0 => heap[held.addr] = held.seen

(***************************************************************************)
(* The bidirectional channel proxy: Gateway.proxyRequests and              *)
(* Gateway.proxyChannelWithRequests, between the client channel ("C",      *)
(* `channel`, request stream clientReqs) and the backend channel ("B",     *)
(* `backendChannel`, request stream backendReqs).                          *)
(*                                                                         *)
(* The source holds two revisions of proxyChannelWithRequests:             *)
(*   "utils.go"  gateway/utils.go: the two request pumps are in one        *)
(*               WaitGroup, both data copies are awaited, then both write  *)
(*               sides are half-closed, the pumps awaited, both closed;    *)
(*   "part_003"  each data copy half-closes its destination and signals    *)
(*               `done`; after the first signal the backend channel is     *)
(*               closed, the backend->client pump awaited, the client      *)
(*               channel closed.                                           *)
(* Both are modelled; rev says which one runs.                             *)
(*                                                                         *)
(* An ssh.Channel end is modelled by what golang.org/x/crypto/ssh does:    *)
(* Read returns buffered data, then EOF once the peer sent EOF or close;   *)
(* Write fails after the own CloseWrite or once a close was sent;          *)
(* SendRequest, CloseWrite and Close fail once a close was sent; receiving *)
(* the peer's close sends the own close, closes the request stream and     *)
(* fails a SendRequest that waits for its reply.  The payload of data and  *)
(* the value of a reply are not part of the state: what is kept of a       *)
(* channel is what decides the outcome of the calls above and the order of *)
(* the requests and of the close that reach the peer.                      *)
(***************************************************************************)
\* Messages (chunks of data, or requests other than the exit-status) a peer
\* sends on its channel.
MaxMsgs == 1

Revisions == {"utils.go", "part_003"}
Sides == {"C", "B"}
Other(x) == IF x = "C" THEN "B" ELSE "C"

Pumps == {"clientReqs", "backendReqs"}
Copies == {"toClient", "toBackend"}
Goroutines == {"main"} \cup Pumps \cup Copies

\* proxyRequests(in, out): the stream a pump ranges over, and the channel it
\* sends to.
PumpIn(t) == IF t = "clientReqs" THEN "C" ELSE "B"
PumpOut(t) == Other(PumpIn(t))
\* io.Copy(dst, src)
CopySrc(t) == IF t = "toClient" THEN "B" ELSE "C"
CopyDst(t) == Other(CopySrc(t))

Request(type, wantReply) == [Type |-> type, WantReply |-> wantReply]
NoRequest == Request("", FALSE)
ExitStatus == Request("exit-status", FALSE)
PeerRequests(x) ==
    IF x = "C"
    THEN {Request("env", TRUE)}
    ELSE {Request("keepalive@openssh.com", TRUE)}

OpenChannel ==
    [ data |-> 0,           \* chunks received and not yet read
      eof |-> FALSE,        \* the peer sent EOF or close
      reqs |-> <<>>,        \* requests received and not yet taken by the pump
      reqsClosed |-> FALSE, \* the request stream is closed (the peer closed)
      sentEOF |-> FALSE,    \* CloseWrite was called
      closedBy |-> "",      \* who sent its close first: "gateway" or "peer"
      closeCalled |-> FALSE,\* the proxy called Close
      out |-> <<>> ]        \* requests and "close" sent to the peer, in order

FreshPeer == [msgs |-> MaxMsgs, exitSent |-> FALSE]

InitProxy ==
    /\ rev \in Revisions
    /\ pc = [t \in Goroutines |->
               IF t = "main" THEN "wait" ELSE IF t \in Pumps THEN "range" ELSE "read"]
    /\ cur = [t \in Pumps \cup Copies |-> NoRequest]
    /\ ch = [x \in Sides |-> OpenChannel]
    /\ peer = [x \in Sides |-> FreshPeer]
    /\ done = FALSE

(***************************************************************************)
(* ssh.Channel operations on the gateway's end x.                          *)
(***************************************************************************)
SentClose(c) == c.closedBy # ""

\* channel.SendRequest fails once a close was sent on the channel.
SendRequestFails(c) == SentClose(c)

\* channel.Write fails after CloseWrite or once a close was sent.
WriteFails(c) == c.sentEOF \/ SentClose(c)

\* channel.CloseWrite
CloseWrite(c) == [c EXCEPT !.sentEOF = TRUE]

\* channel.Close
Close(c) ==
    IF SentClose(c) THEN [c EXCEPT !.closeCalled = TRUE]
    ELSE [c EXCEPT !.closeCalled = TRUE, !.closedBy = "gateway",
                   !.out = Append(@, "close")]

(***************************************************************************)
(* Gateway.proxyRequests, run by the goroutine t.                          *)
(***************************************************************************)
\* for req := range in
PumpTake(t) ==
    /\ pc[t] = "range"
    /\ ch[PumpIn(t)].reqs # <<>>
    /\ cur' = [cur EXCEPT ![t] = Head(ch[PumpIn(t)].reqs)]
    /\ ch' = [ch EXCEPT ![PumpIn(t)].reqs = Tail(@)]
    /\ pc' = [pc EXCEPT ![t] = "send"]
    /\ UNCHANGED <<rev, peer, done>>

\* the range ends when the stream is closed and drained
PumpEnd(t) ==
    /\ pc[t] = "range"
    /\ ch[PumpIn(t)].reqs = <<>>
    /\ ch[PumpIn(t)].reqsClosed
    /\ pc' = [pc EXCEPT ![t] = "done"]
    /\ UNCHANGED <<rev, cur, ch, peer, done>>

\* What is kept of a request whose SendRequest returned an error:
\* req.Reply(ok, nil) with ok false when a reply was wanted.
SendError(req) ==
    [ Type |-> "SendRequest error", WantReply |-> req.WantReply,
      reply |-> IF req.WantReply THEN "false" ELSE "none" ]

\* An error in one pump ends both pumps.
PumpsReturn(t) == [u \in Goroutines |-> IF u \in Pumps THEN "done" ELSE pc[u]]

\* if err != nil { return }
PumpReturns(t) == [pc EXCEPT ![t] = "done"]

\* out.SendRequest(...): an error answers a reply-wanted request with false
\* and ends the pump; a request that wants no reply is sent and the loop
\* goes on; one that wants a reply is sent and awaited.
PumpSend(t) ==
    /\ pc[t] = "send"
    /\ IF SendRequestFails(ch[PumpOut(t)])
       THEN /\ UNCHANGED ch
            /\ pc' = PumpReturns(t)
            /\ cur' = [cur EXCEPT ![t] = SendError(cur[t])]
       ELSE /\ ch' = [ch EXCEPT ![PumpOut(t)].out = Append(@, cur[t].Type)]
            /\ pc' = [pc EXCEPT ![t] = IF cur[t].WantReply THEN "reply" ELSE "range"]
            /\ cur' = [cur EXCEPT ![t] = IF cur[t].WantReply THEN @ ELSE NoRequest]
    /\ UNCHANGED <<rev, peer, done>>

\* SendRequest returns the peer's answer, which is passed on with req.Reply.
PumpReplied(t) ==
    /\ pc[t] = "reply"
    /\ ~ch[PumpOut(t)].reqsClosed
    /\ UNCHANGED ch
    /\ pc' = [pc EXCEPT ![t] = "range"]
    /\ cur' = [cur EXCEPT ![t] = NoRequest]
    /\ UNCHANGED <<rev, peer, done>>

\* The peer closed the channel instead of answering: SendRequest returns an
\* error, the request is answered false and the pump ends.
PumpReplyLost(t) ==
    /\ pc[t] = "reply"
    /\ ch[PumpOut(t)].reqsClosed
    /\ UNCHANGED ch
    /\ pc' = PumpReturns(t)
    /\ cur' = [cur EXCEPT ![t] = SendError(cur[t])]
    /\ UNCHANGED <<rev, peer, done>>

(***************************************************************************)
(* io.Copy(dst, src), run by the goroutine t (in utils.go the copy to the  *)
(* backend is run by the caller's goroutine itself, which then waits for   *)
(* the other copy: main waits for both).                                   *)
(***************************************************************************)
\* Where a goroutine goes when its io.Copy has returned.
AfterCopy == IF rev = "part_003" THEN "closeWrite" ELSE "done"

CopyRead(t) ==
    /\ pc[t] = "read"
    /\ ch[CopySrc(t)].data > 0
    /\ ch' = [ch EXCEPT ![CopySrc(t)].data = @ - 1]
    /\ pc' = [pc EXCEPT ![t] = "write"]
    /\ UNCHANGED <<rev, cur, peer, done>>

\* Read returns io.EOF: the copy ends.
CopyEOF(t) ==
    /\ pc[t] = "read"
    /\ ch[CopySrc(t)].data = 0
    /\ ch[CopySrc(t)].eof
    /\ pc' = [pc EXCEPT ![t] = AfterCopy]
    /\ cur' = [cur EXCEPT ![t] = Request("EOF", FALSE)]
    /\ UNCHANGED <<rev, ch, peer, done>>

\* Write to the destination; a failed Write ends the copy.
CopyWrite(t) ==
    /\ pc[t] = "write"
    /\ IF WriteFails(ch[CopyDst(t)])
       THEN /\ pc' = [pc EXCEPT ![t] = AfterCopy]
            /\ cur' = [cur EXCEPT ![t] = Request("write error", FALSE)]
            /\ UNCHANGED ch
       ELSE /\ pc' = [pc EXCEPT ![t] = "read"]
            /\ UNCHANGED <<ch, cur>>
    /\ UNCHANGED <<rev, peer, done>>

(***************************************************************************)
(* proxyChannelWithRequests of part_003.                                   *)
(***************************************************************************)
\* _ = channel.CloseWrite() / _ = backendChannel.CloseWrite() after the copy
OnceCloseWrite(t) ==
    /\ rev = "part_003"
    /\ pc[t] = "closeWrite"
    /\ ch' = [ch EXCEPT ![CopyDst(t)] = CloseWrite(@)]
    /\ pc' = [pc EXCEPT ![t] = "closeDone"]
    /\ UNCHANGED <<rev, cur, peer, done>>

\* closeDone()
OnceCloseDone(t) ==
    /\ rev = "part_003"
    /\ pc[t] = "closeDone"
    /\ done' = TRUE
    /\ pc' = [pc EXCEPT ![t] = "done"]
    /\ UNCHANGED <<rev, cur, ch, peer>>

\* <-done; _ = backendChannel.Close()
OnceCloseBackend ==
    /\ rev = "part_003"
    /\ pc["main"] = "wait"
    /\ done
    /\ ch' = [ch EXCEPT !["B"] = Close(@)]
    /\ pc' = [pc EXCEPT !["main"] = "waitReqs"]
    /\ UNCHANGED <<rev, cur, peer, done>>

\* <-backendReqsDone skipped: the client channel is closed without waiting
\* for the backend->client pump.
BackendReqsDoneNoWait == TRUE

\* <-backendReqsDone
BackendReqsDone == pc["backendReqs"] = "done"

\* <-backendReqsDone; _ = channel.Close(); return
OnceCloseClient ==
    /\ rev = "part_003"
    /\ pc["main"] = "waitReqs"
    /\ BackendReqsDone
    /\ ch' = [ch EXCEPT !["C"] = Close(@)]
    /\ pc' = [pc EXCEPT !["main"] = "returned"]
    /\ UNCHANGED <<rev, cur, peer, done>>

(***************************************************************************)
(* proxyChannelWithRequests of gateway/utils.go.                           *)
(***************************************************************************)
\* io.Copy(backendChannel, channel) returned and copyWg.Wait()
CopiesDone == \A t \in Copies : pc[t] = "done"

\* wg.Wait()
PumpsDone == \A t \in Pumps : pc[t] = "done"

\* copyWg.Wait(); _ = channel.CloseWrite()
WgCloseWriteClient ==
    /\ rev = "utils.go"
    /\ pc["main"] = "wait"
    /\ CopiesDone
    /\ ch' = [ch EXCEPT !["C"] = CloseWrite(@)]
    /\ pc' = [pc EXCEPT !["main"] = "closeWriteBackend"]
    /\ UNCHANGED <<rev, cur, peer, done>>

\* _ = backendChannel.CloseWrite()
WgCloseWriteBackend ==
    /\ rev = "utils.go"
    /\ pc["main"] = "closeWriteBackend"
    /\ ch' = [ch EXCEPT !["B"] = CloseWrite(@)]
    /\ pc' = [pc EXCEPT !["main"] = "waitReqs"]
    /\ UNCHANGED <<rev, cur, peer, done>>

\* wg.Wait(); _ = channel.Close()
WgCloseClient ==
    /\ rev = "utils.go"
    /\ pc["main"] = "waitReqs"
    /\ PumpsDone
    /\ ch' = [ch EXCEPT !["C"] = Close(@)]
    /\ pc' = [pc EXCEPT !["main"] = "closeBackend"]
    /\ UNCHANGED <<rev, cur, peer, done>>

\* _ = backendChannel.Close(); return
WgCloseBackend ==
    /\ rev = "utils.go"
    /\ pc["main"] = "closeBackend"
    /\ ch' = [ch EXCEPT !["B"] = Close(@)]
    /\ pc' = [pc EXCEPT !["main"] = "returned"]
    /\ UNCHANGED <<rev, cur, peer, done>>

(***************************************************************************)
(* The remote ends: the SSH client and the devbox's SSH server.            *)
(***************************************************************************)
PeerData(x) ==
    /\ peer[x].msgs > 0
    /\ ~ch[x].eof
    /\ peer' = [peer EXCEPT ![x].msgs = @ - 1]
    /\ ch' = [ch EXCEPT ![x].data = @ + 1]
    /\ UNCHANGED <<rev, pc, cur, done>>

PeerRequest(x, req) ==
    /\ peer[x].msgs > 0
    /\ ~ch[x].reqsClosed
    /\ peer' = [peer EXCEPT ![x].msgs = @ - 1]
    /\ ch' = [ch EXCEPT ![x].reqs = Append(@, req)]
    /\ UNCHANGED <<rev, pc, cur, done>>

\* The backend's command has ended: the server sends its exit-status.
BackendExitStatus ==
    /\ ~peer["B"].exitSent
    /\ ~ch["B"].reqsClosed
    /\ peer' = [peer EXCEPT !["B"].exitSent = TRUE]
    /\ ch' = [ch EXCEPT !["B"].reqs = Append(@, ExitStatus)]
    /\ UNCHANGED <<rev, pc, cur, done>>

PeerEOF(x) ==
    /\ ~ch[x].eof
    /\ ch' = [ch EXCEPT ![x].eof = TRUE]
    /\ UNCHANGED <<rev, pc, cur, peer, done>>

PeerClosed(c) ==
    [c EXCEPT !.eof = TRUE, !.reqsClosed = TRUE,
              !.closedBy = IF @ = "" THEN "peer" ELSE @,
              !.out = IF SentClose(c) THEN @ ELSE Append(@, "close")]

\* The peer's close arrives: the gateway's end answers with its own close
\* unless it has sent one, and the request stream is closed.
PeerClose(x) ==
    /\ ~ch[x].reqsClosed
    /\ ch' = [ch EXCEPT ![x] = PeerClosed(@)]
    /\ UNCHANGED <<rev, pc, cur, peer, done>>

(***************************************************************************)
(* The specification of one proxied channel pair.                          *)
(***************************************************************************)
InitProxied == InitRegistry /\ InitProxy /\ NoSession /\ NoProcess

NextProxy ==
    \/ \E t \in Pumps : PumpTake(t) /\ UNCHANGED <<registryVars, sessionVars, processVars>>
    \/ \E t \in Pumps : PumpEnd(t) /\ UNCHANGED <<registryVars, sessionVars, processVars>>
    \/ \E t \in Pumps : PumpSend(t) /\ UNCHANGED <<registryVars, sessionVars, processVars>>
    \/ \E t \in Pumps : PumpReplied(t) /\ UNCHANGED <<registryVars, sessionVars, processVars>>
    \/ \E t \in Pumps : PumpReplyLost(t) /\ UNCHANGED <<registryVars, sessionVars, processVars>>
    \/ \E t \in Copies : CopyRead(t) /\ UNCHANGED <<registryVars, sessionVars, processVars>>
    \/ \E t \in Copies : CopyEOF(t) /\ UNCHANGED <<registryVars, sessionVars, processVars>>
    \/ \E t \in Copies : CopyWrite(t) /\ UNCHANGED <<registryVars, sessionVars, processVars>>
    \/ \E t \in Copies : OnceCloseWrite(t) /\ UNCHANGED <<registryVars, sessionVars, processVars>>
    \/ \E t \in Copies : OnceCloseDone(t) /\ UNCHANGED <<registryVars, sessionVars, processVars>>
    \/ OnceCloseBackend /\ UNCHANGED <<registryVars, sessionVars, processVars>>
    \/ OnceCloseClient /\ UNCHANGED <<registryVars, sessionVars, processVars>>
    \/ WgCloseWriteClient /\ UNCHANGED <<registryVars, sessionVars, processVars>>
    \/ WgCloseWriteBackend /\ UNCHANGED <<registryVars, sessionVars, processVars>>
    \/ WgCloseClient /\ UNCHANGED <<registryVars, sessionVars, processVars>>
    \/ WgCloseBackend /\ UNCHANGED <<registryVars, sessionVars, processVars>>
    \/ \E x \in Sides : PeerData(x) /\ UNCHANGED <<registryVars, sessionVars, processVars>>
    \/ \E x \in Sides : \E req \in PeerRequests(x) :
          PeerRequest(x, req) /\ UNCHANGED <<registryVars, sessionVars, processVars>>
    \/ BackendExitStatus /\ UNCHANGED <<registryVars, sessionVars, processVars>>
    \/ \E x \in Sides : PeerEOF(x) /\ UNCHANGED <<registryVars, sessionVars, processVars>>
    \/ \E x \in Sides : PeerClose(x) /\ UNCHANGED <<registryVars, sessionVars, processVars>>

SpecProxy == InitProxied /\ [][NextProxy]_vars

(***************************************************************************)
(* Claims about the channel proxy (checked under SpecProxy).               *)
(***************************************************************************)
\* v occurs in seq before w does.
Before(seq, v, w) ==
    \E i, j \in DOMAIN seq : i < j /\ seq[i] = v /\ seq[j] = w

\* C8. Exit-status preservation: when the gateway closes the client channel
\* (its Close sends the close message: the client has not closed the channel
\* itself), an exit-status the backend has sent before closing its own channel
\* has reached the client channel before that close, in either revision and
\* for every interleaving of the pumps and copies.
ExitStatusBeforeClientClose ==
    (ch["C"].closedBy = "gateway" /\ peer["B"].exitSent)
        => Before(ch["C"].out, "exit-status", "close")

\* Witness of C8: in the part_003 revision the gateway has closed the client
\* channel while the client->backend pump is still running, and the backend
\* had sent its exit-status.
ClientClosedAfterExitStatus ==
    /\ rev = "part_003"
    /\ ch["C"].closedBy = "gateway"
    /\ peer["B"].exitSent
    /\ pc["clientReqs"] # "done"
    /\ Before(ch["C"].out, "exit-status", "close")

\* C9. Close ordering: neither channel has been fully closed by the proxy
\* unless both request pumps have returned.
ClosedOnlyAfterBothPumps ==
    \A x \in Sides : ch[x].closeCalled => PumpsDone

\* The other copy is still inside io.Copy.
OtherCopyRunning(t) == \E u \in Copies \ {t} : pc[u] \in {"read", "write"}

\* The half-close of the destination of copy t is the next thing its
\* goroutine (part_003) or the caller (utils.go) does, with nothing to wait
\* for.
HalfCloseReady(t) ==
    \/ rev = "part_003" /\ pc[t] = "closeWrite"
    \/ rev = "utils.go" /\ pc["main"] = "wait" /\ CopiesDone /\ t = "toClient"
    \/ rev = "utils.go" /\ pc["main"] = "closeWriteBackend" /\ t = "toBackend"

\* The step that half-closes the destination of copy t.
HalfCloses(t) ==
    \/ OnceCloseWrite(t)
    \/ t = "toClient" /\ WgCloseWriteClient
    \/ t = "toBackend" /\ WgCloseWriteBackend

\* C10. Half-close per direction: a copy that ends at its source's EOF while
\* the other copy is still running leaves the half-close of its destination
\* ready (it does not wait for the other copy), and at the step that
\* half-closes a destination the proxy has fully closed neither channel.
HalfClosePerDirection ==
    [][\A t \in Copies :
          /\ (CopyEOF(t) /\ OtherCopyRunning(t) /\ ~SentClose(ch[CopyDst(t)]))
                => HalfCloseReady(t)'
          /\ HalfCloses(t) => \A x \in Sides : ~ch[x].closeCalled]_vars

\* The pump t has returned because SendRequest returned an error.
PumpFailed(t) == pc[t] = "done" /\ cur[t].Type = "SendRequest error"

\* C35. Pump isolation: the step in which a request pump returns because its
\* SendRequest failed leaves every other goroutine of the proxy where it was
\* and both channels as they were, and the failing request has been
\* answered false if it wanted a reply; and after such a step the proxy
\* still comes to close both channels and return: it never comes to rest,
\* with nothing left to do for any goroutine or peer, before it has.
PumpIsolation ==
    /\ [][\A t \in Pumps :
            (pc[t] \in {"send", "reply"} /\ pc'[t] = "done") =>
                /\ \A u \in Goroutines \ {t} : pc'[u] = pc[u]
                /\ ch' = ch /\ done' = done
                /\ PumpFailed(t)'
                /\ cur[t].WantReply => cur'[t].reply = "false"]_vars
    /\ [](\A t \in Pumps :
            PumpFailed(t) /\ ~ENABLED <<NextProxy>>_vars =>
                (pc["main"] = "returned" /\ \A x \in Sides : ch[x].closeCalled))

\* The client->backend pump has returned on an error, having answered false,
\* while the other pump and both copies are still running.
PumpFailedOthersRunning ==
    /\ PumpFailed("clientReqs")
    /\ cur["clientReqs"].reply = "false"
    /\ pc["backendReqs"] = "range"
    /\ \A t \in Copies : pc[t] = "read"
    /\ pc["main"] = "wait"

\* A step of one of the proxy's own goroutines: a pump, a copy or the
\* caller of proxyChannelWithRequests.
GatewayStep ==
    /\ \/ \E t \in Pumps : PumpTake(t) \/ PumpEnd(t) \/ PumpSend(t)
                              \/ PumpReplied(t) \/ PumpReplyLost(t)
       \/ \E t \in Copies : CopyRead(t) \/ CopyEOF(t) \/ CopyWrite(t)
                              \/ OnceCloseWrite(t) \/ OnceCloseDone(t)
       \/ OnceCloseBackend \/ OnceCloseClient
       \/ WgCloseWriteClient \/ WgCloseWriteBackend
       \/ WgCloseClient \/ WgCloseBackend
    /\ UNCHANGED <<registryVars, sessionVars, processVars>>

\* Every goroutine of the proxy is blocked or has returned: nothing happens
\* until a peer sends something.
ProxyAtRest == ~ENABLED <<GatewayStep>>_vars

\* The backend has ended the session: EOF, exit-status and its close.
BackendEndedSession ==
    ch["B"].eof /\ peer["B"].exitSent /\ ch["B"].closedBy = "peer"

\* The peer of side x has sent neither EOF nor close.
StillOpen(x) == ~ch[x].eof /\ ~ch[x].reqsClosed

\* C38. Proxy termination: when the backend has ended the session while the
\* client keeps its input open and sends nothing more, the proxy does not
\* come to rest before it has signalled EOF or close on the client channel
\* and proxyChannelWithRequests has returned; and when the client has sent
\* EOF while the backend's output is still open, the proxy does not come to
\* rest before the EOF was passed on to the backend.
ProxyTerminates ==
    ProxyAtRest =>
        /\ (BackendEndedSession /\ StillOpen("C")) =>
               /\ ch["C"].sentEOF \/ ch["C"].closedBy = "gateway"
               /\ pc["main"] = "returned"
        /\ (ch["C"].eof /\ ~ch["C"].reqsClosed /\ StillOpen("B")) =>
               ch["B"].sentEOF \/ ch["B"].closedBy = "gateway"

(***************************************************************************)
(* Authentication: the public-key callback of the SSH server.              *)
(*                                                                         *)
(* The source holds the callback as Gateway.publicKeyCallback              *)
(* (gateway/utils.go), with the fallback on the parsed user name, and as   *)
(* newPublicKeyCallback (gateway/gateway.go), which gateway.New installs   *)
(* and which knows the fingerprint lookup only.  cb.fn says which runs.    *)
(*                                                                         *)
(* A presented user name is the sequence of its parts and separators:      *)
(* "alice.1-db1" is <<"alice", ".", "1", "-", "db1">>.                     *)
(***************************************************************************)
AuthModeUnknown == 0
AuthModePublicKey == 1
AuthModeAgentForwarding == 2

\* AuthMode.String
AuthModeString(m) ==
    IF m = AuthModePublicKey THEN "public-key"
    ELSE IF m = AuthModeAgentForwarding THEN "agent-forwarding"
    ELSE "unknown"

CallbackFunctions == {"publicKeyCallback", "newPublicKeyCallback"}

\* The keys a client may present: the registered ones and a foreign one.
PresentedKeys == { [algo |-> "ssh-ed25519", blob |-> b] : b \in KeyBlobs \cup {"AAAA9"} }

\* The user names a client may present.
PresentedUsers ==
    { <<"devbox">>,
      <<"alice", ".", "1", "-", "db1">>,
      <<"alice", ".", "2", "-", "db1">>,
      <<"alice", ".", "1db1">>,
      <<"alice", ".", "1", "-", "nodb">>,
      <<"al", ".", "ice", ".", "1", "-", "db1">> }

\* conn.User(): the presented name as one string.
RECURSIVE Join(_)
Join(parts) == IF parts = <<>> THEN "" ELSE Head(parts) \o Join(Tail(parts))

\* The configured prefix that completes a namespace suffix.
NamespacePrefix == "ns"

\* g.parser.Parse: "<user>.<ns-suffix>-<devbox>", split on the first '.',
\* then the rest on the last '-'; the error names the separator that is
\* missing.
Parse(name) ==
    LET dots == { i \in DOMAIN name : name[i] = "." }
    IN  IF dots = {}
        THEN [ err |-> "invalid username format: missing '.'",
               username |-> "", fullNamespace |-> "", devboxName |-> "" ]
        ELSE
        LET dot == CHOOSE i \in dots : \A j \in dots : i <= j
            rest == SubSeq(name, dot + 1, Len(name))
            dashes == { i \in DOMAIN rest : rest[i] = "-" }
        IN  IF dashes = {}
            THEN [ err |-> "invalid username format: missing '-'",
                   username |-> "", fullNamespace |-> "", devboxName |-> "" ]
            ELSE
            LET dash == CHOOSE i \in dashes : \A j \in dashes : i >= j
            IN  [ err |-> "nil",
                  username |-> Join(SubSeq(name, 1, dot - 1)),
                  fullNamespace |-> NamespacePrefix \o Join(SubSeq(rest, 1, dash - 1)),
                  devboxName |-> Join(SubSeq(rest, dash + 1, Len(rest))) ]

\* A Go map read: the zero value when the key is absent.
MapGet(m, k) == IF k \in DOMAIN m THEN m[k] ELSE ""

\* Gateway.determineAuthMode
determineAuthMode(perms) ==
    IF perms.isNil THEN AuthModeAgentForwarding
    ELSE IF MapGet(perms.Extensions, "auth_mode") = AuthModeString(AuthModePublicKey)
    THEN AuthModePublicKey
    ELSE AuthModeAgentForwarding

\* Gateway.getDevboxInfoFromPermissions: the attached record, 0 when there is
\* none.
getDevboxInfoFromPermissions(perms) ==
    IF perms.isNil \/ "devbox_info" \notin DOMAIN perms.ExtraData THEN 0
    ELSE perms.ExtraData["devbox_info"]

\* fmt.Errorf("devbox %s/%s not running", info.Namespace, info.DevboxName)
NotRunningError(info) ==
    "devbox " \o info.Namespace \o "/" \o info.DevboxName \o " not running"

\* return perms, err
Returned(call, perms, err) ==
    [call EXCEPT !.pc = "returned", !.perms = perms, !.err = err]

\* newPublicKeyCallback of gateway/gateway.go, after its lookup r.
newPublicKeyCallback(call, r, fingerprint) ==
    IF ~r.ok
    THEN Returned(call, NilPermissions, "unknown public key with fingerprint " \o fingerprint)
    ELSE Returned([call EXCEPT !.username = Join(call.user)],
                  Permissions([k \in {"fingerprint", "username"} |->
                                  IF k = "fingerprint" THEN fingerprint
                                  ELSE Join(call.user)],
                              EmptyMap),
                  "nil")

\* Gateway.publicKeyCallback recording the presented name, not the parsed
\* user field, on the fallback.
publicKeyCallbackKeepsName(call, r) ==
    LET parsed == Parse(call.user)
    IN  IF r.ok
        THEN [call EXCEPT !.pc = "check", !.username = Join(call.user),
                          !.mode = AuthModePublicKey]
        ELSE IF parsed.err # "nil"
        THEN Returned(call, NilPermissions, parsed.err)
        ELSE [call EXCEPT !.pc = "lookup", !.username = Join(call.user),
                          !.fullNamespace = parsed.fullNamespace,
                          !.devboxName = parsed.devboxName]

\* Gateway.publicKeyCallback of gateway/utils.go, from its lookup r up to
\* its next access to the registry.
publicKeyCallback(call, r) ==
    LET parsed == Parse(call.user)
    IN  IF r.ok
        THEN [call EXCEPT !.pc = "check", !.username = Join(call.user),
                          !.mode = AuthModePublicKey]
        ELSE IF parsed.err # "nil"
        THEN Returned(call, NilPermissions, parsed.err)
        ELSE [call EXCEPT !.pc = "lookup", !.username = parsed.username,
                          !.fullNamespace = parsed.fullNamespace,
                          !.devboxName = parsed.devboxName]

\* The server calls the callback with the presented name and key:
\* g.registry.GetByFingerprint(ssh.FingerprintSHA256(key)).
CallbackStart(fn, user, key) ==
    LET fingerprint == FingerprintSHA256(key)
        r == LookupByFingerprint(Reg, fingerprint)
        call == [IdleCallback EXCEPT !.fn = fn, !.user = user, !.key = key,
                                     !.matched = r.ok, !.resolved = r.ok]
    IN  /\ cb.pc = "idle"
        /\ GetByFingerprint(fingerprint)
        /\ cb' = IF fn = "newPublicKeyCallback"
                 THEN newPublicKeyCallback(call, r, fingerprint)
                 ELSE publicKeyCallback(call, r)

\* info, ok := g.registry.GetDevboxInfo(fullNamespace, devboxName)
CallbackLookupName ==
    LET r == LookupByName(Reg, cb.fullNamespace, cb.devboxName)
    IN  /\ cb.pc = "lookup"
        /\ GetDevboxInfo(cb.fullNamespace, cb.devboxName)
        /\ cb' = IF r.ok
                 THEN [cb EXCEPT !.pc = "check", !.resolved = TRUE,
                                 !.mode = AuthModeAgentForwarding]
                 ELSE Returned(cb, NilPermissions, "unknown public key")

\* The end of the callback without the test of info.PodIP.
CallbackCheckNoPodIP ==
    LET info == heap[held.addr]
        call == [cb EXCEPT !.podIP = info.PodIP]
    IN  /\ cb.pc = "check"
        /\ cb' = Returned(call,
                          Permissions([k \in {"username", "auth_mode"} |->
                                          IF k = "username" THEN cb.username
                                          ELSE AuthModeString(cb.mode)],
                                      [k \in {"devbox_info"} |-> held.addr]),
                          "nil")
        /\ UNCHANGED <<heap, fingerprintToDevbox, devboxToInfo, held>>

\* if info.PodIP == "" { return nil, "devbox not running" }; return the
\* permissions.  info is the pointer the lookup returned.
CallbackCheck ==
    LET info == heap[held.addr]
        call == [cb EXCEPT !.podIP = info.PodIP]
    IN  /\ cb.pc = "check"
        /\ cb' = IF info.PodIP = ""
                 THEN Returned(call, NilPermissions, NotRunningError(info))
                 ELSE Returned(call,
                               Permissions([k \in {"username", "auth_mode"} |->
                                               IF k = "username" THEN cb.username
                                               ELSE AuthModeString(cb.mode)],
                                           [k \in {"devbox_info"} |-> held.addr]),
                               "nil")
        /\ UNCHANGED <<heap, fingerprintToDevbox, devboxToInfo, held>>

(***************************************************************************)
(* The callback running while the watcher's events change the registry.    *)
(***************************************************************************)
\* The events of the devbox ns1/db1; no other devbox is registered.
AuthSecrets == { secret \in GoodSecrets : secret.Namespace = "ns1" }
AuthPods == { pod \in GoodPods : pod.Namespace = "ns1" }

NextAuth ==
    \/ \E secret \in AuthSecrets :
          AddSecret(secret) /\ UNCHANGED <<lastOp, everShared, proxyVars, cb, gp, ag, processVars>>
    \/ \E secret \in AuthSecrets :
          DeleteSecret(secret) /\ UNCHANGED <<lastOp, everShared, proxyVars, cb, gp, ag, processVars>>
    \/ \E pod \in AuthPods :
          UpdatePod(pod) /\ UNCHANGED <<lastOp, everShared, proxyVars, cb, gp, ag, processVars>>
    \/ \E pod \in AuthPods :
          DeletePod(pod) /\ UNCHANGED <<lastOp, everShared, proxyVars, cb, gp, ag, processVars>>
    \/ \E fn \in CallbackFunctions, user \in PresentedUsers, key \in PresentedKeys :
          CallbackStart(fn, user, key) /\ UNCHANGED <<lastOp, everShared, proxyVars, gp, ag, processVars>>
    \/ CallbackLookupName /\ UNCHANGED <<lastOp, everShared, proxyVars, gp, ag, processVars>>
    \/ CallbackCheck /\ UNCHANGED <<lastOp, everShared, proxyVars, gp, ag, processVars>>

SpecAuth == Init /\ [][NextAuth]_vars

(***************************************************************************)
(* Claims about the public-key callback (checked under SpecAuth).          *)
(***************************************************************************)
\* The callback accepted: it returned permissions and no error.
Accepted == cb.pc = "returned" /\ cb.err = "nil" /\ ~cb.perms.isNil

\* C11. Auth hot path: whenever the callback has returned and the
\* fingerprint of the presented key was in the fingerprint index, it has
\* accepted, and the permissions carry the matched DevboxInfo, the mode
\* PublicKey and the presented user name unchanged.
HotPathAccepts ==
    (cb.pc = "returned" /\ cb.matched) =>
        /\ Accepted
        /\ getDevboxInfoFromPermissions(cb.perms) = held.addr
        /\ determineAuthMode(cb.perms) = AuthModePublicKey
        /\ MapGet(cb.perms.Extensions, "username") = Join(cb.user)

\* C12. Auth fallback: whenever the callback has returned for a key whose
\* fingerprint was unknown, the presented name parsed, the named devbox was
\* found and its podIP read non-empty, it has accepted in the mode
\* AgentForwarding, the permissions carry the DevboxInfo of the named devbox,
\* and the user name they carry is the parsed user field.
FallbackAccepts ==
    (cb.pc = "returned" /\ ~cb.matched /\ Parse(cb.user).err = "nil"
        /\ cb.resolved /\ cb.podIP \notin {"", "<unread>"}) =>
        /\ Accepted
        /\ determineAuthMode(cb.perms) = AuthModeAgentForwarding
        /\ getDevboxInfoFromPermissions(cb.perms) = held.addr
        /\ heap[held.addr].Namespace = Parse(cb.user).fullNamespace
        /\ heap[held.addr].DevboxName = Parse(cb.user).devboxName
        /\ MapGet(cb.perms.Extensions, "username") = Parse(cb.user).username

\* Witness of C12: the fallback accepted "alice.1-db1" for an unknown key
\* and recorded "alice", not the presented name.
FallbackAcceptedParsedUser ==
    /\ Accepted
    /\ ~cb.matched
    /\ Join(cb.user) = "alice.1-db1"
    /\ MapGet(cb.perms.Extensions, "username") = "alice"
    /\ determineAuthMode(cb.perms) = AuthModeAgentForwarding

\* C13. Generic auth rejection: whenever Gateway.publicKeyCallback has
\* returned for an unknown fingerprint without having found a devbox (the
\* name was malformed, or no such devbox), the error is "unknown public key".
FallbackFailureIsGeneric ==
    (cb.pc = "returned" /\ cb.fn = "publicKeyCallback" /\ ~cb.matched /\ ~cb.resolved)
        => cb.err = "unknown public key"

MaxGlobalReqs == 3

\* case "tcpip-forward", "cancel-tcpip-forward":
RejectedTypesNone == {}
RejectedTypes == {"tcpip-forward", "cancel-tcpip-forward"}

GlobalRequests ==
    { Request(type, wantReply) :
        type \in {"tcpip-forward", "cancel-tcpip-forward", "keepalive@openssh.com"},
        wantReply \in BOOLEAN }

GlobalRequestsStart ==
    [ pc |-> "range", client |-> <<>>, closed |-> FALSE, taken |-> 0,
      sent |-> <<>>, replies |-> <<>>, backendUp |-> TRUE,
      failed |-> {}, answers |-> <<>> ]

InitGlobal == InitRegistry /\ NoProxy /\ cb = IdleCallback
                 /\ gp = GlobalRequestsStart /\ ag = NoSessionChannel /\ NoProcess

\* The client sends a global request.
ClientGlobalRequest(req) ==
    /\ Len(gp.client) < MaxGlobalReqs
    /\ ~gp.closed
    /\ gp' = [gp EXCEPT !.client = Append(@, req)]

\* The client's connection ends: reqs is closed.
ClientGone ==
    /\ ~gp.closed
    /\ gp' = [gp EXCEPT !.closed = TRUE]

\* The backend connection ends: SendRequest on it fails from now on.
BackendGone ==
    /\ gp.backendUp
    /\ gp' = [gp EXCEPT !.backendUp = FALSE]

\* Payloads of the backend's answers; "" is the nil payload.
ResponsePayloads == {"", "port 8022"}

\* req.Reply(ok, payload) to the n-th request of the client.
GlobalReply(g, n, ok, payload) ==
    [g EXCEPT !.replies = Append(@, [n |-> n, ok |-> ok, payload |-> payload])]

\* SendRequest returned an error for the n-th request:
\* req.Reply(false, nil) under req.WantReply, then return.
SendFailed(g, n) ==
    [(IF g.client[n].WantReply THEN GlobalReply(g, n, FALSE, "") ELSE g)
        EXCEPT !.pc = "done", !.failed = @ \cup {n}]

\* The backend's answer is replaced by (false, nil).
RelayNothing(g, n, ok, response) == GlobalReply(g, n, FALSE, "")

\* SendRequest returned (ok, response, nil) for a request that wanted a
\* reply: req.Reply(ok, response).
Relay(g, n, ok, response) == GlobalReply(g, n, ok, response)

\* for req := range reqs, up to the return of SendRequest's write: a
\* rejected type is answered false when a reply is wanted and the loop goes
\* on; any other type is sent to the backend, and a failed send answers
\* false when a reply is wanted and ends the pump.
GlobalTake ==
    LET n == gp.taken + 1
        req == gp.client[n]
        g == [gp EXCEPT !.taken = n]
    IN  /\ gp.pc = "range"
        /\ gp.taken < Len(gp.client)
        /\ gp' = IF req.Type \in RejectedTypes
                 THEN IF req.WantReply THEN GlobalReply(g, n, FALSE, "") ELSE g
                 ELSE IF ~gp.backendUp
                 THEN SendFailed(g, n)
                 ELSE [g EXCEPT !.sent = Append(@, n),
                                !.pc = IF req.WantReply THEN "wait" ELSE "range"]

\* SendRequest returns the backend's answer: req.Reply(ok, response).
GlobalReplied(ok, response) ==
    /\ gp.pc = "wait"
    /\ gp.backendUp
    /\ gp' = [Relay(gp, gp.taken, ok, response)
                 EXCEPT !.pc = "range",
                        !.answers = Append(@, [n |-> gp.taken, ok |-> ok,
                                               payload |-> response])]

\* The backend connection ended before the answer: SendRequest returns an
\* error, the request is answered false and the pump returns.
GlobalReplyLost ==
    /\ gp.pc = "wait"
    /\ ~gp.backendUp
    /\ gp' = SendFailed(gp, gp.taken)

\* reqs is closed and drained: the range ends.
GlobalEnd ==
    /\ gp.pc = "range"
    /\ gp.closed
    /\ gp.taken = Len(gp.client)
    /\ gp' = [gp EXCEPT !.pc = "done"]

NextGlobal ==
    \/ \E req \in GlobalRequests :
          ClientGlobalRequest(req) /\ UNCHANGED <<registryVars, proxyVars, cb, ag, processVars>>
    \/ ClientGone /\ UNCHANGED <<registryVars, proxyVars, cb, ag, processVars>>
    \/ BackendGone /\ UNCHANGED <<registryVars, proxyVars, cb, ag, processVars>>
    \/ GlobalTake /\ UNCHANGED <<registryVars, proxyVars, cb, ag, processVars>>
    \/ \E ok \in BOOLEAN, response \in ResponsePayloads :
          GlobalReplied(ok, response) /\ UNCHANGED <<registryVars, proxyVars, cb, ag, processVars>>
    \/ GlobalReplyLost /\ UNCHANGED <<registryVars, proxyVars, cb, ag, processVars>>
    \/ GlobalEnd /\ UNCHANGED <<registryVars, proxyVars, cb, ag, processVars>>

SpecGlobal == InitGlobal /\ [][NextGlobal]_vars

(***************************************************************************)
(* Claims about the global-request pump (checked under SpecGlobal).        *)
(***************************************************************************)
\* The replies given to the n-th request of the client.
RepliesTo(n) == { i \in DOMAIN gp.replies : gp.replies[i].n = n }

\* C15. A global request of type "tcpip-forward" or "cancel-tcpip-forward"
\* is never sent to the backend; once the pump has received it the client
\* has one reply to it, false, if it wanted a reply and none if it did not;
\* and the pump has not returned because of it: it is done only if the
\* stream was closed and drained or a later request ended it.
RemoteForwardRejected ==
    /\ \A i \in DOMAIN gp.sent :
          gp.client[gp.sent[i]].Type \notin {"tcpip-forward", "cancel-tcpip-forward"}
    /\ \A n \in 1 .. gp.taken :
          gp.client[n].Type \in {"tcpip-forward", "cancel-tcpip-forward"} =>
              /\ gp.client[n].WantReply =>
                    \E i \in RepliesTo(n) : RepliesTo(n) = {i} /\ ~gp.replies[i].ok
              /\ ~gp.client[n].WantReply => RepliesTo(n) = {}
              /\ (gp.pc = "done" /\ n = gp.taken) =>
                    (gp.closed /\ gp.taken = Len(gp.client))

\* Witness of C15: a "tcpip-forward" that wanted a reply was answered false,
\* not sent, and the request after it was sent to the backend.
LaterRequestServedAfterRejection ==
    /\ gp.taken = 2
    /\ gp.client[1] = Request("tcpip-forward", TRUE)
    /\ gp.replies # <<>>
    /\ gp.replies[1] = [n |-> 1, ok |-> FALSE, payload |-> ""]
    /\ gp.sent = <<2>>

\* The pump is through with the n-th request of the client.
Through(n) == n < gp.taken \/ (n = gp.taken /\ gp.pc # "wait")

\* C29. For a request of another type than the two rejected ones that the
\* pump is through with: if sending it to the backend failed, the client has
\* one reply to it, false, if it wanted one, and the pump has returned
\* without receiving a further request; if it went out and a reply was
\* wanted, the client has one reply, the (ok, payload) the backend answered;
\* if no reply was wanted the client has none.  No request ever has two
\* replies, and one the pump is through with has exactly one if it wanted
\* one.
ForwardedRequestAnswered ==
    \A n \in 1 .. gp.taken :
        LET req == gp.client[n]
        IN  /\ Cardinality(RepliesTo(n)) <= 1
            /\ ~req.WantReply => RepliesTo(n) = {}
            /\ Through(n) /\ req.WantReply => Cardinality(RepliesTo(n)) = 1
            /\ Through(n) /\ req.Type \notin RejectedTypes =>
                  IF n \in gp.failed
                  THEN /\ gp.pc = "done" /\ gp.taken = n
                       /\ \A i \in RepliesTo(n) :
                             ~gp.replies[i].ok /\ gp.replies[i].payload = ""
                  ELSE /\ \E i \in DOMAIN gp.sent : gp.sent[i] = n
                       /\ req.WantReply =>
                             \E a \in DOMAIN gp.answers :
                                /\ gp.answers[a].n = n
                                /\ \A i \in RepliesTo(n) :
                                      /\ gp.replies[i].ok = gp.answers[a].ok
                                      /\ gp.replies[i].payload = gp.answers[a].payload

\* Witness of C29: the backend answered the first request (true, "port 8022")
\* and the client has that reply; the second request went out without a
\* reply being wanted; the backend then ended, the third request got the
\* reply false and the pump returned with the client still connected.
AnswerRelayedThenSendFailed ==
    /\ gp.taken = 3
    /\ gp.pc = "done"
    /\ ~gp.closed
    /\ gp.client[2] = Request("keepalive@openssh.com", FALSE)
    /\ gp.sent = <<1, 2>>
    /\ gp.failed = {3}
    /\ gp.replies = << [n |-> 1, ok |-> TRUE, payload |-> "port 8022"],
                       [n |-> 3, ok |-> FALSE, payload |-> ""] >>

(***************************************************************************)
(* AgentForwarding mode: Gateway.handleSessionChannel on one accepted      *)
(* "session" channel (gateway/agent.go), with the initial-request window   *)
(* of Gateway.handleSessionRequests.                                       *)
(*                                                                         *)
(* ag.client is what the client has sent on the channel's request stream   *)
(* and ag.taken how many of them the gateway has received; requests are    *)
(* named by their position in ag.client.  ag.log lists, in order, what the *)
(* gateway has done on the two connections.                                *)
(***************************************************************************)
\* Requests a client sends on one session channel.
MaxSessionReqs == 7

\* make([]*ssh.Request, 0, 6)
MaxCachedRequests == 6

AgentRequestType == "auth-agent-req@openssh.com"
AgentChannelType == "auth-agent@openssh.com"

NoAgentDiagnostic == "Failed to establish agent forwarding"
DialFailedDiagnostic == "Failed to connect to devbox: "

SessionRequests ==
    { Request(AgentRequestType, TRUE), Request(AgentRequestType, FALSE),
      Request("pty-req", TRUE) }

\* channel, requests, err := newChannel.Accept() succeeded.
SessionChannelStart ==
    [ pc |-> "window",
      client |-> <<>>,     \* the requests the client has sent
      closed |-> FALSE,    \* the client has closed the channel
      taken |-> 0,         \* requests received from the stream so far
      cached |-> <<>>,     \* result.CachedRequests
      replies |-> <<>>,    \* calls of req.Reply
      agent |-> "nil",     \* result.AgentChannel: "nil", "open" or "closed"
      why |-> "",          \* how the window ended
      writes |-> <<>>,     \* writes on the session channel and whether they went out
      forwarded |-> <<>>,  \* requests sent on the backend session channel
      result |-> [set |-> FALSE],  \* ok, err of the last SendRequest in forwardCachedRequests
      log |-> <<>> ]

InitAgent == InitRegistry /\ NoProxy /\ cb = IdleCallback
                /\ gp = NoGlobalRequests /\ ag = SessionChannelStart /\ NoProcess

\* The client sends a request on the session channel.
ClientSessionRequest(req) ==
    /\ ag.pc # "none"
    /\ Len(ag.client) < MaxSessionReqs
    /\ ~ag.closed
    /\ ag' = [ag EXCEPT !.client = Append(@, req)]

\* The client closes the session channel: the request stream is closed.
ClientClosesSession ==
    /\ ag.pc # "none"
    /\ ~ag.closed
    /\ ag' = [ag EXCEPT !.closed = TRUE]

\* req.Reply(ok, nil) to the n-th request.
SessionReply(a, n, ok) == [a EXCEPT !.replies = Append(@, [n |-> n, ok |-> ok])]

\* fmt.Fprintf(channel, text): the write goes out unless the client has
\* closed the channel.
SessionWrite(a, text) ==
    [a EXCEPT !.writes = Append(@, [text |-> text, ok |-> ~a.closed]),
              !.log = Append(@, "write")]

\* A window that ends whatever happened goes on to the dial.
WindowEndsDialsAnyway(a, why) == [a EXCEPT !.why = why, !.pc = "dial"]

\* A window that goes on receiving whatever happened.
WindowGoesOn(a, why) == [a EXCEPT !.why = why]

\* handleSessionRequests returns: the window is over.
WindowEnds(a, why) ==
    [a EXCEPT !.why = why, !.pc = IF a.agent = "open" THEN "dial" ELSE "noAgent"]

\* The cache takes whatever arrives.
CacheAlwaysHasRoom(a) == TRUE

\* len(result.CachedRequests) < 6
CacheHasRoom(a) == Len(a.cached) < MaxCachedRequests

\* case req, ok := <-requests with ok true: one turn of the window's loop.
\* accepted is whether the client accepts the reverse channel that
\* createAgentChannelToClient opens.
WindowRecv(accepted) ==
    /\ ag.pc = "window"
    /\ ag.taken < Len(ag.client)
    /\ LET n == ag.taken + 1
           req == ag.client[n]
           got == [ag EXCEPT !.taken = n]
       IN  IF req.Type = AgentRequestType
           THEN LET replied == IF req.WantReply
                               THEN [SessionReply(got, n, TRUE) EXCEPT
                                        !.log = Append(@, "reply-agent")]
                               ELSE got
                    opened == [replied EXCEPT
                                 !.log = Append(@, "open-agent"),
                                 !.agent = IF accepted THEN "open" ELSE "nil",
                                 !.cached = Append(@, n)]
                IN  ag' = WindowEnds(opened, "agent")
           ELSE /\ accepted   \* no reverse channel is opened on this path
                /\ IF CacheHasRoom(ag)
                   THEN ag' = [got EXCEPT !.cached = Append(@, n)]
                   ELSE ag' = WindowEnds(got, "cap")

\* case req, ok := <-requests with ok false: the stream is closed and empty.
WindowClosed ==
    /\ ag.pc = "window"
    /\ ag.closed
    /\ ag.taken = Len(ag.client)
    /\ ag' = WindowEnds(ag, "closed")

\* case <-timeout.C
WindowTimeout ==
    /\ ag.pc = "window"
    /\ ag' = WindowEnds(ag, "timeout")

\* sessionResult == nil || sessionResult.AgentChannel == nil
NoAgentWrite ==
    /\ ag.pc = "noAgent"
    /\ ag' = [SessionWrite(ag, NoAgentDiagnostic) EXCEPT !.pc = "return"]

\* The deferred channel.Close() of handleSessionChannel.
SessionReturn ==
    /\ ag.pc = "return"
    /\ ag' = [ag EXCEPT !.log = Append(@, "close"), !.pc = "returned"]

\* backendConn, err := g.connectToBackend(...) returns.
DialReturns(ok) ==
    /\ ag.pc = "dial"
    /\ ag' = [ag EXCEPT !.log = Append(@, IF ok THEN "dial-ok" ELSE "dial-failed"),
                         !.pc = "closeAgent"]

\* The agent channel is closed only when the dial has failed.
CloseAgentOnFailure ==
    /\ ag.pc = "closeAgent"
    /\ ag' = IF ag.log[Len(ag.log)] = "dial-ok"
             THEN [ag EXCEPT !.pc = "openBackend"]
             ELSE [ag EXCEPT !.agent = "closed",
                             !.log = Append(@, "close-agent"),
                             !.pc = "dialFailed"]

\* sessionResult.AgentChannel.Close()
CloseAgent ==
    /\ ag.pc = "closeAgent"
    /\ ag' = [ag EXCEPT !.agent = "closed",
                         !.log = Append(@, "close-agent"),
                         !.pc = IF ag.log[Len(ag.log)] = "dial-ok"
                                THEN "openBackend" ELSE "dialFailed"]

\* The handler returns after a failed dial without a word to the client.
DialFailedSilent ==
    /\ ag.pc = "dialFailed"
    /\ ag' = [ag EXCEPT !.pc = "return"]

\* if err != nil after the dial
DialFailedWrite ==
    /\ ag.pc = "dialFailed"
    /\ ag' = [SessionWrite(ag, DialFailedDiagnostic) EXCEPT !.pc = "return"]

\* backendChannel, backendRequests, err := backendConn.OpenChannel("session", nil)
OpenBackendSession(ok) ==
    /\ ag.pc = "openBackend"
    /\ ag' = IF ok THEN [ag EXCEPT !.log = Append(@, "open-backend"), !.pc = "replay"]
                   ELSE [ag EXCEPT !.pc = "return"]

\* What backendChannel.SendRequest returns: the backend's answer when a
\* reply is wanted, (false, nil) when none is, or an error.
SendResults(req) ==
    { [ok |-> FALSE, err |-> TRUE] } \cup
    IF req.WantReply THEN { [ok |-> ok, err |-> FALSE] : ok \in BOOLEAN }
    ELSE { [ok |-> FALSE, err |-> FALSE] }

\* The replay is given up at the first error.
ReplayStopsOnError(result) == IF result.err THEN "return" ELSE "replay"

\* if err != nil { log.Printf(...) }: the loop goes on.
ReplayGoesOn(result) == "replay"

\* One turn of forwardCachedRequests: the next cached request is sent on the
\* backend channel and the client is answered if it asked for a reply.
ForwardCached(result) ==
    /\ ag.pc = "replay"
    /\ Len(ag.forwarded) < Len(ag.cached)
    /\ LET n == ag.cached[Len(ag.forwarded) + 1]
           sent == [ag EXCEPT !.forwarded = Append(@, n), !.log = Append(@, "replay"),
                              !.result = [set |-> TRUE, ok |-> result.ok,
                                          err |-> result.err],
                              !.pc = ReplayGoesOn(result)]
       IN  /\ result \in SendResults(ag.client[n])
           /\ ag' = IF ag.client[n].WantReply THEN SessionReply(sent, n, result.ok)
                    ELSE sent

\* The pump of the client's requests is started before the replay.
ReplayOverAtOnce(a) == TRUE

\* for _, req := range cachedRequests has ended.
ReplayOver(a) == Len(a.forwarded) = Len(a.cached)

\* forwardCachedRequests is over; the proxy goroutines start.
StartProxy ==
    /\ ag.pc = "replay"
    /\ ReplayOver(ag)
    /\ ag' = [ag EXCEPT !.log = Append(@, "proxy"), !.pc = "proxy",
                         !.result = [set |-> FALSE]]

\* go g.proxyRequests(requests, backendChannel): a later request of the
\* client is passed on.
ProxyTake(ok) ==
    /\ ag.pc = "proxy"
    /\ ag.taken < Len(ag.client)
    /\ LET n == ag.taken + 1
           sent == [ag EXCEPT !.taken = n, !.forwarded = Append(@, n)]
       IN  IF ag.client[n].WantReply THEN ag' = SessionReply(sent, n, ok)
           ELSE ok /\ ag' = sent

NextAgent ==
    \/ \E req \in SessionRequests : ClientSessionRequest(req) /\ UNCHANGED <<registryVars, proxyVars, cb, gp, processVars>>
    \/ ClientClosesSession /\ UNCHANGED <<registryVars, proxyVars, cb, gp, processVars>>
    \/ \E accepted \in BOOLEAN : WindowRecv(accepted) /\ UNCHANGED <<registryVars, proxyVars, cb, gp, processVars>>
    \/ WindowClosed /\ UNCHANGED <<registryVars, proxyVars, cb, gp, processVars>>
    \/ WindowTimeout /\ UNCHANGED <<registryVars, proxyVars, cb, gp, processVars>>
    \/ NoAgentWrite /\ UNCHANGED <<registryVars, proxyVars, cb, gp, processVars>>
    \/ SessionReturn /\ UNCHANGED <<registryVars, proxyVars, cb, gp, processVars>>
    \/ \E ok \in BOOLEAN : DialReturns(ok) /\ UNCHANGED <<registryVars, proxyVars, cb, gp, processVars>>
    \/ CloseAgent /\ UNCHANGED <<registryVars, proxyVars, cb, gp, processVars>>
    \/ DialFailedWrite /\ UNCHANGED <<registryVars, proxyVars, cb, gp, processVars>>
    \/ \E ok \in BOOLEAN : OpenBackendSession(ok) /\ UNCHANGED <<registryVars, proxyVars, cb, gp, processVars>>
    \/ \E result \in [ok : BOOLEAN, err : BOOLEAN] : ForwardCached(result) /\ UNCHANGED <<registryVars, proxyVars, cb, gp, processVars>>
    \/ StartProxy /\ UNCHANGED <<registryVars, proxyVars, cb, gp, processVars>>
    \/ \E ok \in BOOLEAN : ProxyTake(ok) /\ UNCHANGED <<registryVars, proxyVars, cb, gp, processVars>>

SpecAgent == InitAgent /\ [][NextAgent]_vars

(***************************************************************************)
(* Claims about the initial-request window.                                *)
(***************************************************************************)
InLog(e) == \E i \in 1..Len(ag.log) : ag.log[i] = e

\* The backend is being dialed or has been.
Dialed == ag.pc = "dial" \/ InLog("dial-ok") \/ InLog("dial-failed")

\* C16: when the window ends because the timer fired or the request stream
\* was closed, no agent pipe having been opened, the gateway never dials the
\* backend; it writes the diagnostic on the session channel (the write goes
\* out when the client has not closed the channel) and then closes the
\* channel, and does nothing else.
NoAgentWindowIsToldAndClosed ==
    ag.why \in {"timeout", "closed"} =>
        /\ ag.agent = "nil"
        /\ ~InLog("open-agent")
        /\ ~Dialed
        /\ ag.forwarded = <<>>
        /\ ag.pc \in {"noAgent", "return", "returned"}
        /\ ag.pc = "returned" =>
              /\ ag.log = <<"write", "close">>
              /\ Len(ag.writes) = 1
              /\ ag.writes[1].text = NoAgentDiagnostic
              /\ ~ag.closed => ag.writes[1].ok

\* The timer fired with two requests cached; the client read the diagnostic
\* and the channel is closed.
TimedOutWindowClosed ==
    /\ ag.why = "timeout"
    /\ ag.pc = "returned"
    /\ Len(ag.cached) = 2
    /\ ag.writes = <<[text |-> NoAgentDiagnostic, ok |-> TRUE]>>

\* The cached requests that are not the agent request.
NonAgentCached ==
    { i \in 1..Len(ag.cached) : ag.client[ag.cached[i]].Type # AgentRequestType }

\* C17 as stated: as soon as 6 non-agent requests have been cached the window
\* is over, and without an agent request by then no agent pipe is opened and
\* the backend is not dialed.
WindowStopsAtSixCached ==
    Cardinality(NonAgentCached) = MaxCachedRequests =>
        /\ ag.pc # "window"
        /\ ~InLog("open-agent")
        /\ ~Dialed

\* C17: the window never caches more than 6 non-agent requests; it is
\* abandoned when one more non-agent request arrives with 6 cached and no
\* agent request seen: that request is dropped, no agent pipe is opened, the
\* backend is not dialed, and the channel gets the diagnostic and is closed.
WindowAbandonedOnSeventh ==
    /\ Cardinality(NonAgentCached) <= 6
    /\ ag.why = "cap" =>
          /\ Len(ag.cached) = 6
          /\ ag.taken = 7
          /\ \A n \in 1..7 : ag.client[n].Type # AgentRequestType
          /\ ag.agent = "nil"
          /\ ~InLog("open-agent")
          /\ ~Dialed
          /\ ag.forwarded = <<>>
          /\ ag.pc \in {"noAgent", "return", "returned"}
          /\ ag.pc = "returned" => ag.log = <<"write", "close">>

\* A seventh non-agent request ended the window and the channel is closed.
AbandonedOnSeventh ==
    /\ ag.why = "cap"
    /\ ag.pc = "returned"
    /\ ag.writes = <<[text |-> NoAgentDiagnostic, ok |-> TRUE]>>

\* An agent request that came seventh opened the pipe and the dial followed.
AgentRequestAfterSixCached ==
    /\ Cardinality(NonAgentCached) = MaxCachedRequests
    /\ ag.why = "agent"
    /\ InLog("dial-ok")

\* The positions in the log of the calls that open a reverse channel.
AgentOpens == { i \in 1..Len(ag.log) : ag.log[i] = "open-agent" }

\* The agent request that ended the window.
AgentRequest == ag.cached[Len(ag.cached)]

DialReturned == InLog("dial-ok") \/ InLog("dial-failed")

\* C19: the agent pipe is closed as the first thing after the backend dial
\* has returned, with or without a connection, and so before the backend
\* channel is opened, a cached request is replayed or anything is proxied:
\* an open agent pipe exists only up to that point.
AgentPipeClosedAfterDial ==
    /\ \A i \in 1..Len(ag.log) :
          ag.log[i] \in {"dial-ok", "dial-failed"} /\ i < Len(ag.log)
              => ag.log[i + 1] = "close-agent"
    /\ DialReturned /\ ag.pc # "closeAgent" => ag.agent = "closed"
    /\ ag.agent = "open" => ag.pc \in {"dial", "closeAgent"} /\ ag.forwarded = <<>>
    /\ ag.pc \in {"openBackend", "replay", "proxy"} \/ ag.forwarded # <<>>
          => ag.agent = "closed" /\ InLog("dial-ok")

\* The proxy phase with the agent pipe closed: the cached requests were
\* replayed and a later request of the client was passed on.
ProxyingWithAgentPipeClosed ==
    /\ ag.pc = "proxy"
    /\ ag.agent = "closed"
    /\ Len(ag.forwarded) > Len(ag.cached)

\* C20: when the backend dial fails the gateway opens no backend session
\* channel and forwards no cached request; after closing the agent pipe it
\* writes the "Failed to connect to devbox" diagnostic on the session channel
\* (the write goes out when the client has not closed the channel) and then
\* closes the channel.
DialFailureIsToldAndClosed ==
    InLog("dial-failed") =>
        /\ ~InLog("dial-ok")
        /\ ~InLog("open-backend")
        /\ ~InLog("replay")
        /\ ~InLog("proxy")
        /\ ag.forwarded = <<>>
        /\ ag.pc \in {"closeAgent", "dialFailed", "return", "returned"}
        /\ ag.pc = "returned" =>
              /\ Len(ag.log) >= 4
              /\ SubSeq(ag.log, Len(ag.log) - 3, Len(ag.log))
                    = <<"dial-failed", "close-agent", "write", "close">>
              /\ Len(ag.writes) = 1
              /\ ag.writes[1].text = DialFailedDiagnostic
              /\ ~ag.closed => ag.writes[1].ok

\* The dial failed with two requests cached besides the agent request; the
\* client read the diagnostic and the channel is closed.
DialFailedChannelClosed ==
    /\ InLog("dial-failed")
    /\ ag.pc = "returned"
    /\ Len(ag.cached) = 3
    /\ ag.writes = <<[text |-> DialFailedDiagnostic, ok |-> TRUE]>>

(***************************************************************************)
(* Claims about the cache of the window and its replay.                    *)
(***************************************************************************)
\* C31: at every point the cache holds at most 6 requests that are not the
\* agent request; it holds the requests the window received, each once and
\* in the order of their arrival; and an agent request is in the cache only
\* as its last element.
CacheBoundedAndOrdered ==
    /\ Cardinality(NonAgentCached) <= MaxCachedRequests
    /\ \A i \in 1..Len(ag.cached) : ag.cached[i] = i /\ i <= ag.taken
    /\ \A i \in 1..Len(ag.cached) :
          ag.client[ag.cached[i]].Type = AgentRequestType => i = Len(ag.cached)
    /\ ag.pc = "window" => Len(ag.cached) = ag.taken

\* The window is still open with six requests cached, the first sent being
\* the first cached.
WindowOpenWithSixCached ==
    /\ ag.pc = "window"
    /\ Len(ag.cached) = MaxCachedRequests
    /\ ag.cached[1] = 1 /\ ag.cached[6] = 6

RequestOrderPreserved ==
    /\ \A i, j \in 1..Len(ag.forwarded) : i < j => ag.forwarded[i] < ag.forwarded[j]
    /\ \A i \in 1..Len(ag.forwarded) :
          ag.forwarded[i] > Len(ag.cached) =>
              /\ i > Len(ag.cached)
              /\ SubSeq(ag.forwarded, 1, Len(ag.cached)) = ag.cached

\* Two cached requests and then two later ones have been sent to the
\* backend.
LaterRequestsFollowCached ==
    /\ ag.pc = "proxy"
    /\ ag.cached = <<1, 2>>
    /\ ag.forwarded = <<1, 2, 3, 4>>

(***************************************************************************)
(* The process: main (main.go) with informer.Manager.Start (README.md).    *)
(*                                                                         *)
(* The two informers run from factory.Start on: each reports HasSynced     *)
(* once its initial list is in, and their handlers feed the registry.      *)
(***************************************************************************)
\* Connections the listener accepts.
MaxConns == 2

\* Channels a client opens on one connection.
MaxChannels == 2

\* reg := registry.New(); infMgr := informer.New(clientset, reg, ...)
MainStart ==
    [ pc |-> "handlers",
      started |-> FALSE,         \* m.factory.Start was called
      secretsSynced |-> FALSE,   \* secretInformer.HasSynced()
      podsSynced |-> FALSE,      \* podInformer.HasSynced()
      listening |-> FALSE,       \* net.Listen returned a listener
      accepted |-> 0,            \* connections handed to gw.HandleConnection
      fatal |-> "" ]             \* the log.Fatalf that ended the process

InitMain == InitRegistry /\ NoProxy /\ NoSession /\ mn = MainStart /\ hc = <<>> /\ hk = <<>> /\ nc = <<>>

\* log.Fatalf(...): the process exits.
Fatal(m, what) == [m EXCEPT !.pc = "exited", !.fatal = what]

\* Manager.Start up to m.factory.Start: AddEventHandler on both informers;
\* an error of either is returned to main, which exits.
StartInformers(ok) ==
    /\ mn.pc = "handlers"
    /\ mn' = IF ok THEN [mn EXCEPT !.started = TRUE, !.pc = "waitSync"]
                   ELSE Fatal(mn, "Failed to start informers")

\* The informers run while the process does.
InformersRun == mn.started /\ mn.pc # "exited"

SecretsSynced ==
    /\ InformersRun
    /\ ~mn.secretsSynced
    /\ mn' = [mn EXCEPT !.secretsSynced = TRUE]

PodsSynced ==
    /\ InformersRun
    /\ ~mn.podsSynced
    /\ mn' = [mn EXCEPT !.podsSynced = TRUE]

\* handleSecretAdd, handleSecretUpdate
HandleSecretAdd(secret) == InformersRun /\ AddSecret(secret)

\* handleSecretDelete
HandleSecretDelete(secret) == InformersRun /\ DeleteSecret(secret)

\* handlePodAdd, handlePodUpdate
HandlePodAdd(pod) == InformersRun /\ UpdatePod(pod)

\* handlePodDelete
HandlePodDelete(pod) == InformersRun /\ DeletePod(pod)

\* WaitForCacheSync returns at once, whatever the informers report.
CacheSyncedAtOnce(m) == TRUE

\* cache.WaitForCacheSync(ctx.Done(), secretInformer.HasSynced, podInformer.HasSynced)
CacheSynced(m) == m.secretsSynced /\ m.podsSynced

\* WaitForCacheSync returns true; Start returns nil.  ctx is
\* context.Background(), whose Done channel never closes.
WaitForCacheSync ==
    /\ mn.pc = "waitSync"
    /\ CacheSynced(mn)
    /\ mn' = [mn EXCEPT !.pc = "hostkey"]

\* hostKey, err := hostkey.Load(cfg.SSHHostKeySeed); gw := gateway.New(...)
LoadHostKey(ok) ==
    /\ mn.pc = "hostkey"
    /\ mn' = IF ok THEN [mn EXCEPT !.pc = "listen"]
                   ELSE Fatal(mn, "Failed to load host key")

\* listener, err := net.Listen("tcp", cfg.SSHListenAddr)
Listen(ok) ==
    /\ mn.pc = "listen"
    /\ mn' = IF ok THEN [mn EXCEPT !.listening = TRUE, !.pc = "accept"]
                   ELSE Fatal(mn, "listen")

\* conn, err := listener.Accept(); go gw.HandleConnection(conn)
Accept ==
    /\ mn.pc = "accept"
    /\ mn.accepted < MaxConns
    /\ mn' = [mn EXCEPT !.accepted = @ + 1]

NextMain ==
    \/ \E ok \in BOOLEAN : StartInformers(ok) /\ UNCHANGED <<registryVars, gatewayVars, hc, hk, nc>>
    \/ SecretsSynced /\ UNCHANGED <<registryVars, gatewayVars, hc, hk, nc>>
    \/ PodsSynced /\ UNCHANGED <<registryVars, gatewayVars, hc, hk, nc>>
    \/ \E secret \in AuthSecrets :
          HandleSecretAdd(secret) /\ UNCHANGED <<lastOp, everShared, gatewayVars, processVars>>
    \/ \E secret \in AuthSecrets :
          HandleSecretDelete(secret) /\ UNCHANGED <<lastOp, everShared, gatewayVars, processVars>>
    \/ \E pod \in AuthPods :
          HandlePodAdd(pod) /\ UNCHANGED <<lastOp, everShared, gatewayVars, processVars>>
    \/ \E pod \in AuthPods :
          HandlePodDelete(pod) /\ UNCHANGED <<lastOp, everShared, gatewayVars, processVars>>
    \/ WaitForCacheSync /\ UNCHANGED <<registryVars, gatewayVars, hc, hk, nc>>
    \/ \E ok \in BOOLEAN : LoadHostKey(ok) /\ UNCHANGED <<registryVars, gatewayVars, hc, hk, nc>>
    \/ \E ok \in BOOLEAN : Listen(ok) /\ UNCHANGED <<registryVars, gatewayVars, hc, hk, nc>>
    \/ Accept /\ UNCHANGED <<registryVars, gatewayVars, hc, hk, nc>>

SpecMain == InitMain /\ [][NextMain]_vars

\* C21: the process listens, and accepts a connection, only after both
\* informers have reported their initial sync; when Start fails the process
\* exits without having listened or accepted.
NoAcceptBeforeCacheSync ==
    /\ mn.listening \/ mn.accepted > 0 \/ mn.pc \in {"hostkey", "listen", "accept"}
          => mn.secretsSynced /\ mn.podsSynced
    /\ mn.accepted > 0 => mn.listening
    /\ mn.fatal = "Failed to start informers" => ~mn.listening /\ mn.accepted = 0

\* A connection was accepted, with a devbox of the initial replay registered.
AcceptedAfterCacheSync ==
    /\ mn.accepted > 0
    /\ mn.secretsSynced /\ mn.podsSynced
    /\ DevboxKey("ns1", "db1") \in DOMAIN devboxToInfo

(***************************************************************************)
(* Claims about the events the registry ignores or rejects.                *)
(***************************************************************************)
\* An event of a resource that is not labelled as part of devbox.
Foreign(e) == e.PartOf # DevboxPartOfValue

\* C22: in every state the registry reaches, an event of a resource whose
\* part-of label is not "devbox" returns no error and leaves both indexes and
\* all records as they are, whether it is the add or update or the delete of
\* a credential or of a pod.
ForeignEventsIgnored ==
    /\ \A secret \in Secrets : Foreign(secret) =>
          AddSecretError(secret) = "" /\ AddSecretResult(Reg, secret) = Reg
    /\ \A secret \in DeletedSecrets : Foreign(secret) =>
          DeleteSecretResult(Reg, secret) = Reg
    /\ \A pod \in Pods : Foreign(pod) =>
          /\ UpdatePodError(pod) = "" /\ UpdatePodResult(Reg, pod) = Reg
          /\ DeletePodResult(Reg, pod) = Reg

(***************************************************************************)
(* The registry under every event of one namespace and the plain events of *)
(* a devbox in another, with lastOp recording the event handled last, the  *)
(* error returned for it, the registry before it and whether the registry  *)
(* was left as it was.                                                     *)
(***************************************************************************)
EventSecrets ==
    { secret \in Secrets : secret.Namespace = "ns1" }
        \cup { Secret("ns2", DevboxPartOfValue, DevboxOwner("db1"), Ed25519("AAAA1", ""), "PEM1") }
EventDeletedSecrets ==
    { secret \in DeletedSecrets : secret.Namespace = "ns1" }
        \cup { Secret("ns2", DevboxPartOfValue, DevboxOwner("db1"), NoField, NoPrivField) }
EventPods ==
    { pod \in Pods : pod.Namespace = "ns1" }
        \cup { Pod("ns2", DevboxPartOfValue, DevboxOwner("db1"), "10.0.0.5") }

Handled(op, e, err) ==
    lastOp' = [ op |-> op, event |-> e, err |-> err,
                before |-> Reg,
                same |-> /\ heap' = heap
                         /\ fingerprintToDevbox' = fingerprintToDevbox
                         /\ devboxToInfo' = devboxToInfo ]

NextEvents ==
    \/ \E secret \in EventSecrets :
          /\ AddSecret(secret)
          /\ Handled("AddSecret", secret, AddSecretError(secret))
          /\ UNCHANGED <<everShared, gatewayVars, processVars>>
    \/ \E secret \in EventDeletedSecrets :
          /\ DeleteSecret(secret)
          /\ Handled("DeleteSecret", secret, "")
          /\ UNCHANGED <<everShared, gatewayVars, processVars>>
    \/ \E pod \in EventPods :
          /\ UpdatePod(pod)
          /\ Handled("UpdatePod", pod, UpdatePodError(pod))
          /\ UNCHANGED <<everShared, gatewayVars, processVars>>
    \/ \E pod \in EventPods :
          /\ DeletePod(pod)
          /\ Handled("DeletePod", pod, "")
          /\ UNCHANGED <<everShared, gatewayVars, processVars>>

SpecEvents == Init /\ [][NextEvents]_vars

\* The devbox a pod or credential event is about has a record.
HasRecord(reg, e) ==
    DevboxKey(e.Namespace, getDevboxNameFromOwnerReferences(e.OwnerReferences))
        \in DOMAIN reg.name

\* C23 as stated: an UpdatePod whose pod has an empty IP returns no error and
\* leaves the registry as it was.
EmptyIPPodIsNoOp ==
    lastOp.op = "UpdatePod" /\ lastOp.event.PodIP = "" =>
        lastOp.err = "" /\ lastOp.same

\* C23: an UpdatePod whose pod has an empty IP leaves the registry as it was:
\* no record is created and an existing record keeps its pod IP and its key
\* material.  It returns no error, except for a devbox-labelled pod without a
\* Devbox owner, which gets the "no Devbox owner" error whatever its IP is.
EmptyIPPodLeavesRegistry ==
    lastOp.op = "UpdatePod" /\ lastOp.event.PodIP = "" =>
        /\ lastOp.same
        /\ Reg = lastOp.before
        /\ lastOp.err = IF /\ ~Foreign(lastOp.event)
                           /\ getDevboxNameFromOwnerReferences(lastOp.event.OwnerReferences) = ""
                        THEN "no Devbox owner" ELSE ""

\* A pod event with an empty IP was handled for a devbox that has a record
\* with a pod IP and a key: the record is as it was.
EmptyIPPodKeptRecord ==
    /\ lastOp.op = "UpdatePod"
    /\ lastOp.event.PodIP = ""
    /\ lastOp.err = ""
    /\ HasRecord(Reg, lastOp.event)
    /\ LET info == heap[devboxToInfo[EventKey(lastOp.event)]]
       IN  info.PodIP = "10.0.0.5" /\ info.Fingerprint # ""

\* A devbox-labelled credential that AddSecret cannot use.
Unusable(secret) ==
    /\ ~Foreign(secret)
    /\ \/ secret.PublicKeyData = NoField
       \/ ~ParseAuthorizedKey(secret.PublicKeyData).ok
       \/ getDevboxNameFromOwnerReferences(secret.OwnerReferences) = ""

\* C24: an AddSecret of a devbox-labelled credential without the public-key
\* field, with a key that does not parse, or without a Devbox owner returns
\* an error, and the registry is exactly as it was before the event.
UnusableCredentialRejected ==
    lastOp.op = "AddSecret" /\ Unusable(lastOp.event) =>
        /\ lastOp.err # ""
        /\ lastOp.same
        /\ Reg = lastOp.before
        /\ lastOp.event.PublicKeyData = NoField => lastOp.err = "missing public key"

\* A credential without the public-key field was rejected for a devbox whose
\* record holds a key: the record and its fingerprint entry are as they were.
KeylessCredentialRejected ==
    /\ lastOp.op = "AddSecret"
    /\ lastOp.event.PublicKeyData = NoField
    /\ lastOp.err = "missing public key"
    /\ HasRecord(Reg, lastOp.event)
    /\ LET a == devboxToInfo[EventKey(lastOp.event)]
       IN  /\ heap[a].Fingerprint # ""
           /\ LookupByFingerprint(Reg, heap[a].Fingerprint) = [ok |-> TRUE, info |-> a]

(***************************************************************************)
(* Claims about lazy creation.                                             *)
(***************************************************************************)
\* The last event was an AddSecret or an UpdatePod that reached its writes.
Upserted ==
    \/ lastOp.op = "AddSecret" /\ AddSecretWrites(lastOp.event)
    \/ lastOp.op = "UpdatePod" /\ UpdatePodWrites(lastOp.event)

\* The credential and the pod are usable events of the same devbox.
SameDevbox(secret, pod) ==
    /\ AddSecretWrites(secret)
    /\ UpdatePodWrites(pod)
    /\ EventKey(secret) = EventKey(pod)

\* C25: an AddSecret or UpdatePod that writes leaves exactly one record under
\* its devbox's key: a new one when there was none, else the same record with
\* the fields the event does not carry kept (the pod IP for a credential, the
\* key material for a pod), and no other devbox's record touched.  In every
\* state, a credential and a pod of one devbox give the same registry in
\* both orders.
LazyCreationCommutes ==
    /\ Upserted =>
          LET k == EventKey(lastOp.event)
              b == lastOp.before
              a == devboxToInfo[k]
          IN  /\ k \in DOMAIN devboxToInfo
              /\ DOMAIN devboxToInfo = DOMAIN b.name \cup {k}
              /\ \A k2 \in DOMAIN b.name \ {k} :
                    /\ devboxToInfo[k2] = b.name[k2]
                    /\ heap[devboxToInfo[k2]] = b.heap[b.name[k2]]
                    /\ devboxToInfo[k2] # a
              /\ k \in DOMAIN b.name =>
                    /\ a = b.name[k]
                    /\ lastOp.op = "AddSecret" => heap[a].PodIP = b.heap[a].PodIP
                    /\ lastOp.op = "UpdatePod" =>
                          /\ heap[a].PublicKey = b.heap[a].PublicKey
                          /\ heap[a].PrivateKey = b.heap[a].PrivateKey
                          /\ heap[a].Fingerprint = b.heap[a].Fingerprint
                          /\ fingerprintToDevbox = b.fp
              /\ k \notin DOMAIN b.name =>
                    /\ a \notin DOMAIN b.heap
                    /\ lastOp.op = "AddSecret" => heap[a].PodIP = ""
                    /\ lastOp.op = "UpdatePod" => heap[a].Fingerprint = ""
    /\ \A secret \in EventSecrets, pod \in EventPods :
          SameDevbox(secret, pod) /\ (HasRecord(Reg, pod) \/ CanAllocate(Reg)) =>
              UpdatePodResult(AddSecretResult(Reg, secret), pod)
                = AddSecretResult(UpdatePodResult(Reg, pod), secret)

\* The pod event came first and made the record; the credential then
\* enriched it: the record has the pod IP, the key and its fingerprint entry,
\* and another devbox is registered beside it.
CredentialEnrichedPodRecord ==
    /\ lastOp.op = "AddSecret"
    /\ AddSecretWrites(lastOp.event)
    /\ HasRecord(lastOp.before, lastOp.event)
    /\ DOMAIN devboxToInfo # {EventKey(lastOp.event)}
    /\ LET a == devboxToInfo[EventKey(lastOp.event)]
       IN  /\ lastOp.before.heap[a].Fingerprint = ""
           /\ heap[a].PodIP = "10.0.0.5"
           /\ heap[a].Fingerprint # ""
           /\ LookupByFingerprint(Reg, heap[a].Fingerprint) = [ok |-> TRUE, info |-> a]

(***************************************************************************)
(* Gateway.HandleConnection: the worker of each accepted connection, in    *)
(* PublicKey mode (gateway.go, publickey.go), beside the registry's        *)
(* writers.  A panic that no worker recovers ends the process and with it  *)
(* every other worker.                                                     *)
(***************************************************************************)
Conns == 1 .. MaxConns

\* Credentials of the devbox ns1/db1 with and without a usable private key.
ConnSecrets ==
    AuthSecrets \cup
    { secret \in OddSecrets :
        AddSecretWrites(secret) /\ AddSecretPrivateKey(secret) = NilSigner }

ConnPods == { pod \in AuthPods : pod.PodIP # "" }

\* The listener is up; no connection has been accepted.
Listening == [MainStart EXCEPT !.pc = "accept", !.started = TRUE,
                               !.secretsSynced = TRUE, !.podsSynced = TRUE,
                               !.listening = TRUE]

\* go gw.HandleConnection(conn): the worker is in ssh.NewServerConn.
ConnStart ==
    [ pc |-> "handshake",
      overdue |-> FALSE,      \* 30 seconds have passed since the accept
      idle |-> FALSE,         \* ... and the handshake was over by then
      signer |-> NilSigner,   \* info.PrivateKey
      podIP |-> "",           \* info.PodIP
      backend |-> "none",     \* backendConn: "none", "up" or "gone"
      pending |-> 0,          \* channel-opens of the client not yet handled
      opened |-> 0,           \* channels opened on the backend for the client
      rejected |-> 0,         \* channel-opens the gateway rejected
      closed |-> FALSE ]      \* the client connection is closed

NotAccepted == [pc |-> "none"]

InitConn == InitRegistry /\ NoProxy /\ NoSession
               /\ mn = Listening /\ hc = [c \in Conns |-> NotAccepted] /\ hk = <<>>
               /\ nc = <<>>

ProcessRuns == mn.pc # "exited"

AcceptConn ==
    /\ Accept
    /\ hc' = [hc EXCEPT ![mn.accepted + 1] = ConnStart]

\* Thirty seconds go by for a connection: nothing in HandleConnection or in
\* the server configuration acts on it.
ThirtySecondsPass(c) ==
    /\ ProcessRuns
    /\ hc[c].pc \notin {"none", "ended"}
    /\ ~hc[c].overdue
    /\ hc' = [hc EXCEPT ![c].overdue = TRUE,
                        ![c].idle = hc[c].pc = "serving"]

\* ssh.NewServerConn returns an error (and has closed the connection).
HandshakeFails(c) ==
    /\ ProcessRuns
    /\ hc[c].pc = "handshake"
    /\ hc' = [hc EXCEPT ![c].pc = "ended", ![c].closed = TRUE]

\* ssh.NewServerConn returns: the callback accepted a key whose devbox
\* runs; the worker has the devbox's record from the permissions and builds
\* the backend configuration from it.
HandshakeCompletes(c, fingerprint) ==
    /\ ProcessRuns
    /\ hc[c].pc = "handshake"
    /\ LookupByFingerprint(Reg, fingerprint).ok
    /\ LET info == heap[LookupByFingerprint(Reg, fingerprint).info]
       IN  /\ info.PodIP # ""
           /\ hc' = [hc EXCEPT ![c].pc = "dial",
                               ![c].signer = info.PrivateKey,
                               ![c].podIP = info.PodIP]

\* What ssh.Dial can do with ssh.PublicKeys(signer): with a nil signer the
\* dial fails before authentication or, once the backend asks for a public
\* key, the method calls PublicKey() on the nil interface.
DialOutcomes(signer) ==
    IF signer = NilSigner THEN {"error", "panic"} ELSE {"error", "connected"}

\* A panic in one goroutine that nothing recovers: the process exits.
Panic(m) == [m EXCEPT !.pc = "exited", !.fatal = "panic"]

\* backendConn, err := ssh.Dial("tcp", backendAddr, backendConfig)
Dial(c, outcome) ==
    /\ ProcessRuns
    /\ hc[c].pc = "dial"
    /\ outcome \in DialOutcomes(hc[c].signer)
    /\ IF outcome = "panic"
       THEN /\ mn' = Panic(mn)
            /\ hc' = [d \in Conns |->
                        IF hc[d].pc \in {"none", "ended"} THEN hc[d]
                        ELSE [hc[d] EXCEPT !.pc = "ended", !.closed = TRUE]]
       ELSE /\ UNCHANGED mn
            /\ hc' = IF outcome = "connected"
                     THEN [hc EXCEPT ![c].pc = "serving", ![c].backend = "up"]
                     ELSE [hc EXCEPT ![c].pc = "ended", ![c].closed = TRUE]

\* The client goes away: chans is closed, the worker returns and the
\* deferred Close calls run.
ClientDisconnects(c) ==
    /\ ProcessRuns
    /\ hc[c].pc = "serving"
    /\ hc' = [hc EXCEPT ![c].pc = "ended", ![c].closed = TRUE]

\* The backend's SSH connection ends (the pod is deleted, its sshd stops,
\* the network breaks).  handlePublicKeyMode holds backendConn only to pass
\* it on and to close it when it returns: no goroutine waits for its end.
BackendConnectionEnds(c) ==
    /\ ProcessRuns
    /\ hc[c].pc = "serving"
    /\ hc[c].backend = "up"
    /\ hc' = [hc EXCEPT ![c].backend = "gone"]

\* The client opens a channel on its connection.
ConnOpensChannel(c) ==
    /\ ProcessRuns
    /\ hc[c].pc = "serving"
    /\ hc[c].pending + hc[c].opened + hc[c].rejected < MaxChannels
    /\ hc' = [hc EXCEPT ![c].pending = @ + 1]

\* for newChannel := range chans { go g.handleChannelPublicKey(newChannel,
\* backendConn) }: backendConn.OpenChannel fails on a connection that has
\* ended, and the channel is rejected; the range loop goes on.
ConnHandlesChannel(c) ==
    /\ ProcessRuns
    /\ hc[c].pc = "serving"
    /\ hc[c].pending > 0
    /\ hc' = IF hc[c].backend = "up"
             THEN [hc EXCEPT ![c].pending = @ - 1, ![c].opened = @ + 1]
             ELSE [hc EXCEPT ![c].pending = @ - 1, ![c].rejected = @ + 1]

NextConn ==
    \/ \E secret \in ConnSecrets :
          ProcessRuns /\ AddSecret(secret)
              /\ UNCHANGED <<lastOp, everShared, gatewayVars, processVars>>
    \/ \E pod \in ConnPods :
          ProcessRuns /\ UpdatePod(pod)
              /\ UNCHANGED <<lastOp, everShared, gatewayVars, processVars>>
    \/ AcceptConn /\ UNCHANGED <<registryVars, gatewayVars, hk, nc>>
    \/ \E c \in Conns : ThirtySecondsPass(c) /\ UNCHANGED <<registryVars, gatewayVars, mn, hk, nc>>
    \/ \E c \in Conns : HandshakeFails(c) /\ UNCHANGED <<registryVars, gatewayVars, mn, hk, nc>>
    \/ \E c \in Conns, fingerprint \in Fingerprints :
          HandshakeCompletes(c, fingerprint) /\ UNCHANGED <<registryVars, gatewayVars, mn, hk, nc>>
    \/ \E c \in Conns, outcome \in {"error", "panic", "connected"} :
          Dial(c, outcome) /\ UNCHANGED <<registryVars, gatewayVars, hk, nc>>
    \/ \E c \in Conns : ClientDisconnects(c) /\ UNCHANGED <<registryVars, gatewayVars, mn, hk, nc>>
    \/ \E c \in Conns : BackendConnectionEnds(c) /\ UNCHANGED <<registryVars, gatewayVars, mn, hk, nc>>
    \/ \E c \in Conns : ConnOpensChannel(c) /\ UNCHANGED <<registryVars, gatewayVars, mn, hk, nc>>
    \/ \E c \in Conns : ConnHandlesChannel(c) /\ UNCHANGED <<registryVars, gatewayVars, mn, hk, nc>>

SpecConn == InitConn /\ [][NextConn]_vars

\* C26: a connection whose handshake is not over 30 seconds after the accept
\* has been closed and its worker has ended; a connection that was
\* established by then is not closed for it.
HandshakeDeadline ==
    \A c \in Conns :
        /\ hc[c].pc = "handshake" => ~hc[c].overdue
        /\ hc[c].pc # "none" /\ hc[c].idle /\ hc[c].pc = "serving" => ~hc[c].closed

\* C28: when the backend dial of a connection whose devbox has no signer is
\* over, that connection is closed and the process, with every other
\* connection it serves, runs on.
AbsentSignerEndsOneConnection ==
    \A c \in Conns :
        hc[c].pc = "ended" /\ hc[c].podIP # "" /\ hc[c].signer = NilSigner =>
            /\ hc[c].closed
            /\ ProcessRuns
            /\ mn.fatal = ""

\* A step of the gateway for the connection c: the end of the dial or the
\* handling of a channel-open.
WorkerStep(c) ==
    /\ \/ \E outcome \in {"error", "panic", "connected"} : Dial(c, outcome)
       \/ ConnHandlesChannel(c) /\ UNCHANGED mn
    /\ UNCHANGED <<registryVars, gatewayVars, hk, nc>>

\* C39: in PublicKey mode, once the backend connection of a client has
\* ended, the gateway does not come to rest for that client, with nothing
\* left to do until the client acts, before it has closed the client
\* connection and the session worker has returned.
BackendGoneClosesClient ==
    \A c \in Conns :
        (hc[c].pc # "none" /\ hc[c].backend = "gone" /\ ~ENABLED <<WorkerStep(c)>>_vars)
            => (hc[c].closed /\ hc[c].pc = "ended")

(***************************************************************************)
(* Package hostkey (part_000): Load and GenerateDeterministicKey, run by   *)
(* several replicas, each with its own environment.                        *)
(***************************************************************************)
\* Replicas of the gateway.
MaxReplicas == 3

Replicas == 1 .. MaxReplicas

\* The value of SSH_HOST_KEY_SEED in a replica's environment.
Unset == "<unset>"
SeedSettings == {Unset, "", "sealos-devbox", "seed-a", "seed-b"}

\* os.Getenv: the empty string for a variable that is not set.
Getenv(setting) == IF setting = Unset THEN "" ELSE setting

\* sha256.Sum256 (modelled as collision free).
Sum256(data) == "sha256(" \o data \o ")"

\* ed25519.NewKeyFromSeed: the private key and the public key it determines.
NewKeyFromSeed(seed) == [seed |-> seed, public |-> "ed25519(" \o seed \o ")"]

\* ssh.NewSignerFromKey; PublicKey() of the signer.
NewSignerFromKey(privateKey) ==
    [key |-> privateKey, PublicKey |-> [algo |-> "ssh-ed25519", blob |-> privateKey.public]]

\* Every seed gives the key of the default seed.
GenerateFixedKey(seed) == NewSignerFromKey(NewKeyFromSeed(Sum256("sealos-devbox")))

GenerateDeterministicKey(seed) == NewSignerFromKey(NewKeyFromSeed(Sum256(seed)))

\* hostkey.Load
Load(setting) ==
    LET seed == Getenv(setting)
    IN  GenerateDeterministicKey(IF seed = "" THEN "sealos-devbox" ELSE seed)

GetFingerprint(signer) == FingerprintSHA256(signer.PublicKey)

NotLoaded == [loaded |-> FALSE]

InitHostKey ==
    /\ InitRegistry /\ NoProxy /\ NoSession
    /\ mn = [pc |-> "none"] /\ hc = <<>> /\ nc = <<>>
    /\ hk \in [Replicas -> { [setting |-> v, loaded |-> FALSE, signer |-> NotLoaded,
                                previous |-> NotLoaded] :
                                v \in SeedSettings }]

\* A replica starts and loads its host key.
ReplicaLoads(r) ==
    /\ ~hk[r].loaded
    /\ hk' = [hk EXCEPT ![r].loaded = TRUE, ![r].signer = Load(hk[r].setting)]

\* A replica restarts with the same environment and loads its host key again;
\* the key of the run before is remembered for comparison.
ReplicaRestarts(r) ==
    /\ hk[r].loaded
    /\ hk[r].previous = NotLoaded
    /\ hk' = [hk EXCEPT ![r].previous = hk[r].signer, ![r].signer = Load(hk[r].setting)]

NextHostKey ==
    \/ \E r \in Replicas : ReplicaLoads(r) /\ UNCHANGED <<registryVars, gatewayVars, mn, hc, nc>>
    \/ \E r \in Replicas : ReplicaRestarts(r) /\ UNCHANGED <<registryVars, gatewayVars, mn, hc, nc>>

SpecHostKey == InitHostKey /\ [][NextHostKey]_vars

\* The seed a replica's setting stands for.
SeedOf(setting) == IF setting \in {Unset, ""} THEN "sealos-devbox" ELSE setting

Channels == 1 .. MaxChannels

ChannelTypes == {"session", "direct-tcpip"}
ExtraDatas == {"", "10.0.0.9:80"}

\* ssh.ConnectionFailed and the reasons a backend gives.
ConnectionFailed == "connect failed"
BackendReasons == {"administratively prohibited", "unknown channel type"}

\* OpenChannelError.Error()
OpenChannelError(reason, message) == "ssh: rejected: " \o reason \o " (" \o message \o ")"

\* The errors backendConn.OpenChannel returns: the backend's rejection, or
\* the end of the backend connection.
OpenChannelErrors ==
    { OpenChannelError(reason, "open failed") : reason \in BackendReasons } \cup {"EOF"}

NotOpened == [pc |-> "none"]

\* go g.handleChannelPublicKey(newChannel, backendConn)
NewChannel(type, extra) ==
    [ pc |-> "open",
      ChannelType |-> type, ExtraData |-> extra,
      backend |-> "none",          \* the backend channel: none, open, closed
      backendType |-> "", backendExtra |-> "",
      err |-> "",                  \* the error of OpenChannel
      client |-> "pending",        \* newChannel: pending, accepted, rejected
      reason |-> "", message |-> "",
      acceptFailed |-> FALSE,
      everAccepted |-> FALSE ]

InitChannels ==
    /\ InitRegistry /\ NoProxy /\ NoSession
    /\ mn = [pc |-> "none"] /\ hc = <<>> /\ hk = <<>>
    /\ nc = [clientUp |-> TRUE, chans |-> [k \in Channels |-> NotOpened]]

\* The client opens a channel: handlePublicKeyMode starts its worker.
ClientOpensChannel(k, type, extra) ==
    /\ nc.clientUp
    /\ nc.chans[k].pc = "none"
    /\ nc' = [nc EXCEPT !.chans[k] = NewChannel(type, extra)]

\* The client's connection ends.
ClientConnectionEnds ==
    /\ nc.clientUp
    /\ nc' = [nc EXCEPT !.clientUp = FALSE]

\* The extra data is not passed on.
OpenChannelArgsNoExtra(newChannel) == [type |-> newChannel.ChannelType, extra |-> ""]

\* backendConn.OpenChannel(newChannel.ChannelType(), newChannel.ExtraData())
OpenChannelArgs(newChannel) ==
    [type |-> newChannel.ChannelType, extra |-> newChannel.ExtraData]

\* OpenChannel returns the backend's channel.
BackendOpens(k) ==
    /\ nc.chans[k].pc = "open"
    /\ nc' = [nc EXCEPT !.chans[k].pc = "accept",
                        !.chans[k].backend = "open",
                        !.chans[k].backendType = OpenChannelArgs(nc.chans[k]).type,
                        !.chans[k].backendExtra = OpenChannelArgs(nc.chans[k]).extra]

\* OpenChannel returns an error:
\* newChannel.Reject(ssh.ConnectionFailed, err.Error()); return
BackendOpenFails(k, err) ==
    /\ nc.chans[k].pc = "open"
    /\ nc' = [nc EXCEPT !.chans[k].pc = "ended",
                        !.chans[k].err = err,
                        !.chans[k].client = "rejected",
                        !.chans[k].reason = ConnectionFailed,
                        !.chans[k].message = err]

\* newChannel.Accept(): it fails when the client's connection has ended, and
\* then backendChannel.Close(); return.
AcceptChannel(k) ==
    /\ nc.chans[k].pc = "accept"
    /\ nc' = IF nc.clientUp
             THEN [nc EXCEPT !.chans[k].pc = "proxy",
                             !.chans[k].client = "accepted",
                             !.chans[k].everAccepted = TRUE]
             ELSE [nc EXCEPT !.chans[k].pc = "ended",
                             !.chans[k].acceptFailed = TRUE,
                             !.chans[k].backend = "closed"]

\* g.proxyChannel returns: both channels are closed.
ProxyChannelReturns(k) ==
    /\ nc.chans[k].pc = "proxy"
    /\ nc' = [nc EXCEPT !.chans[k].pc = "ended",
                        !.chans[k].backend = "closed",
                        !.chans[k].client = "closed"]

NextChannels ==
    \/ \E k \in Channels, type \in ChannelTypes, extra \in ExtraDatas :
          ClientOpensChannel(k, type, extra)
              /\ UNCHANGED <<registryVars, gatewayVars, mn, hc, hk>>
    \/ ClientConnectionEnds /\ UNCHANGED <<registryVars, gatewayVars, mn, hc, hk>>
    \/ \E k \in Channels : BackendOpens(k) /\ UNCHANGED <<registryVars, gatewayVars, mn, hc, hk>>
    \/ \E k \in Channels, err \in OpenChannelErrors :
          BackendOpenFails(k, err) /\ UNCHANGED <<registryVars, gatewayVars, mn, hc, hk>>
    \/ \E k \in Channels : AcceptChannel(k) /\ UNCHANGED <<registryVars, gatewayVars, mn, hc, hk>>
    \/ \E k \in Channels :
          ProxyChannelReturns(k) /\ UNCHANGED <<registryVars, gatewayVars, mn, hc, hk>>

SpecChannels == InitChannels /\ [][NextChannels]_vars

\* C30: a client channel that was ever accepted has a backend channel that
\* the backend accepted with the same type and the same extra data; a channel
\* whose open the backend refused is rejected with ConnectionFailed and the
\* text of the backend's refusal, reason included, and was never accepted;
\* when accepting the client channel failed, the backend channel that had
\* been opened is closed.
ChannelAcceptedAfterBackend ==
    \A k \in Channels :
        LET c == nc.chans[k]
        IN  c.pc # "none" =>
              /\ c.everAccepted =>
                    /\ c.backend \in {"open", "closed"}
                    /\ c.backendType = c.ChannelType
                    /\ c.backendExtra = c.ExtraData
              /\ c.err # "" =>
                    /\ c.client = "rejected"
                    /\ c.reason = ConnectionFailed
                    /\ c.message = c.err
                    /\ \A reason \in BackendReasons :
                          c.err = OpenChannelError(reason, "open failed") =>
                              c.message = "ssh: rejected: " \o reason \o " (open failed)"
                    /\ ~c.everAccepted
                    /\ c.backend = "none"
              /\ c.acceptFailed =>
                    /\ c.backend = "closed"
                    /\ c.backendType = c.ChannelType
                    /\ ~c.everAccepted

\* One "direct-tcpip" channel with extra data was accepted after the backend
\* took it, and the other was refused by the backend and rejected.
OneAcceptedOneRejected ==
    \E k1, k2 \in Channels :
        /\ nc.chans[k1].pc = "proxy"
        /\ nc.chans[k1].ChannelType = "direct-tcpip"
        /\ nc.chans[k1].backendExtra = "10.0.0.9:80"
        /\ nc.chans[k1].client = "accepted"
        /\ nc.chans[k2].pc = "ended"
        /\ nc.chans[k2].client = "rejected"
        /\ nc.chans[k2].message = "ssh: rejected: administratively prohibited (open failed)"

(***************************************************************************)
(* The timer of the initial-request window (handleSessionRequests,         *)
(* gateway/agent.go), with a clock that counts seconds from the moment     *)
(* the window starts.  A request that is waiting on the stream is received *)
(* before the next second passes, and the clock does not pass the timer's  *)
(* deadline while the window is open.                                      *)
(***************************************************************************)
\* Seconds the clock runs and requests the client sends in that time.
MaxClock == 6
MaxWindowReqs == 3

\* time.NewTimer(time.Second * 3) and timeout.Reset(time.Second)
WindowSeconds == 3
ResetSeconds == 1

TimedWindowStart(drains) ==
    [ pc |-> "window",
      drains |-> drains,        \* Reset empties timeout.C of an expired timer (Go 1.23 on)
      client |-> <<>>,          \* the requests the client has sent
      closed |-> FALSE,         \* the client has closed the channel
      recvAt |-> <<>>,          \* when the window received each of them
      cached |-> 0,             \* len(result.CachedRequests)
      now |-> 0,
      deadline |-> WindowSeconds,
      stale |-> FALSE,          \* timeout.C still holds the value of an expired timer
      endedAt |-> 0,
      why |-> "" ]

InitWindowTimer == InitRegistry /\ NoProxy /\ cb = IdleCallback
                      /\ gp = NoGlobalRequests /\ NoProcess
                      /\ \E drains \in BOOLEAN : ag = TimedWindowStart(drains)

TimedClientRequest(req) ==
    /\ ag.pc = "window"
    /\ ~ag.closed
    /\ Len(ag.client) < MaxWindowReqs
    /\ ag' = [ag EXCEPT !.client = Append(@, req)]

TimedClientCloses ==
    /\ ag.pc = "window"
    /\ ~ag.closed
    /\ ag' = [ag EXCEPT !.closed = TRUE]

\* A second passes.
Tick ==
    /\ ag.pc = "window"
    /\ ag.now < MaxClock
    /\ ag.now < ag.deadline
    /\ Len(ag.recvAt) = Len(ag.client)
    /\ ~ag.closed
    /\ ag' = [ag EXCEPT !.now = @ + 1]

TimedWindowEnds(a, why) == [a EXCEPT !.pc = "ended", !.why = why, !.endedAt = a.now]

\* The timer is left as it was armed.
KeepTimer(a) == a

\* timeout.Reset(time.Second).  When the timer had already expired, whether
\* Reset empties timeout.C depends on the Go release the gateway is built
\* with: if it does not, the next select finds the old value there.
ResetTimer(a) ==
    IF a.now >= a.deadline /\ ~a.drains
    THEN [a EXCEPT !.stale = TRUE]
    ELSE [a EXCEPT !.deadline = a.now + ResetSeconds]

\* case req, ok := <-requests with ok true
TimedRecv ==
    /\ ag.pc = "window"
    /\ Len(ag.recvAt) < Len(ag.client)
    /\ LET req == ag.client[Len(ag.recvAt) + 1]
           got == [ag EXCEPT !.recvAt = Append(@, ag.now)]
       IN  ag' = IF req.Type = AgentRequestType
                 THEN TimedWindowEnds(got, "agent")
                 ELSE IF got.cached < MaxCachedRequests
                 THEN ResetTimer([got EXCEPT !.cached = @ + 1])
                 ELSE TimedWindowEnds(got, "cap")

\* case req, ok := <-requests with ok false
TimedWindowClosed ==
    /\ ag.pc = "window"
    /\ ag.closed
    /\ Len(ag.recvAt) = Len(ag.client)
    /\ ag' = TimedWindowEnds(ag, "closed")

\* case <-timeout.C
TimerFires ==
    /\ ag.pc = "window"
    /\ ag.now >= ag.deadline
    /\ ag' = TimedWindowEnds(ag, "timeout")

NextWindowTimer ==
    \/ \E req \in SessionRequests :
          TimedClientRequest(req) /\ UNCHANGED <<registryVars, proxyVars, cb, gp, processVars>>
    \/ TimedClientCloses /\ UNCHANGED <<registryVars, proxyVars, cb, gp, processVars>>
    \/ Tick /\ UNCHANGED <<registryVars, proxyVars, cb, gp, processVars>>
    \/ TimedRecv /\ UNCHANGED <<registryVars, proxyVars, cb, gp, processVars>>
    \/ TimedWindowClosed /\ UNCHANGED <<registryVars, proxyVars, cb, gp, processVars>>
    \/ TimerFires /\ UNCHANGED <<registryVars, proxyVars, cb, gp, processVars>>

SpecWindowTimer == InitWindowTimer /\ [][NextWindowTimer]_vars

\* The client has sent only requests that are not the agent request, fewer
\* than the cap, and has kept the channel open.
OnlyNonAgentRequests ==
    /\ ~ag.closed
    /\ Len(ag.client) < MaxCachedRequests
    /\ \A n \in 1..Len(ag.client) : ag.client[n].Type # AgentRequestType

AgentModeChannelTypes == {"session", "direct-tcpip"}

\* The loop is at for newChannel := range chans.
LoopAtRange == [at |-> "range", k |-> 0]

\* go g.handleChannelAgent(newChannel, ctx): the loop does not wait.
SpawnsHandler(k) == LoopAtRange

\* g.handleChannelAgent(newChannel, ctx): the loop waits for the call to
\* return.
CallsHandler(k) == [at |-> "call", k |-> k]

\* The channel-open is in chans, not yet received by the loop.
QueuedChannel(type) ==
    [ pc |-> "queued", ChannelType |-> type,
      client |-> "pending",   \* newChannel: pending, accepted, rejected, acceptFailed
      backend |-> "none",     \* backendConn of this channel: none, up, closed
      proxied |-> FALSE ]     \* g.proxyChannel was reached

InitSerial ==
    /\ InitRegistry /\ NoProxy /\ NoSession
    /\ mn = [pc |-> "none"] /\ hc = <<>> /\ hk = <<>>
    /\ nc = [clientUp |-> TRUE, loop |-> LoopAtRange,
             chans |-> [k \in Channels |-> NotOpened]]

\* The channels the client has opened so far.
OpenedChannels == { k \in Channels : nc.chans[k].pc # "none" }

\* The client opens its next channel.
AgentClientOpensChannel(type) ==
    /\ nc.clientUp
    /\ Cardinality(OpenedChannels) < MaxChannels
    /\ nc' = [nc EXCEPT !.chans[Cardinality(OpenedChannels) + 1] = QueuedChannel(type)]

\* The client's connection ends.
AgentClientDisconnects ==
    /\ nc.clientUp
    /\ nc' = [nc EXCEPT !.clientUp = FALSE]

\* The handler of channel k returns, the deferred calls included; the loop
\* that called it goes on.
HandlerReturns(n, k) ==
    [n EXCEPT !.chans[k].pc = "returned",
              !.chans[k].backend = IF @ = "up" THEN "closed" ELSE @,
              !.loop = IF n.loop.k = k THEN LoopAtRange ELSE @]

\* for newChannel := range chans { g.handleChannelAgent(newChannel, ctx) }:
\* the loop receives the oldest channel-open; handleChannelAgent rejects a
\* channel that is not a session and returns, and calls
\* handleSessionChannel for a session.
AgentRangeChans(k) ==
    /\ nc.loop.at = "range"
    /\ nc.chans[k].pc = "queued"
    /\ \A j \in Channels : j < k => nc.chans[j].pc # "queued"
    /\ nc' = IF nc.chans[k].ChannelType = "session"
             THEN [nc EXCEPT !.chans[k].pc = "accept", !.loop = CallsHandler(k)]
             ELSE [nc EXCEPT !.chans[k].pc = "returned", !.chans[k].client = "rejected"]

\* channel, requests, err := newChannel.Accept()
AgentSessionAccept(k) ==
    /\ nc.chans[k].pc = "accept"
    /\ nc' = IF nc.clientUp
             THEN [nc EXCEPT !.chans[k].pc = "window", !.chans[k].client = "accepted"]
             ELSE HandlerReturns([nc EXCEPT !.chans[k].client = "acceptFailed"], k)

\* sessionResult := g.handleSessionRequests(requests, ctx); without an
\* agent channel the handler writes its diagnostic and returns.
AgentSessionWindow(k, agent) ==
    /\ nc.chans[k].pc = "window"
    /\ nc' = IF agent /\ nc.clientUp
             THEN [nc EXCEPT !.chans[k].pc = "dial"]
             ELSE HandlerReturns(nc, k)

\* backendConn, err := g.connectToBackend(ctx, sessionResult.AgentChannel);
\* defer backendConn.Close()
AgentSessionDial(k, ok) ==
    /\ nc.chans[k].pc = "dial"
    /\ nc' = IF ok
             THEN [nc EXCEPT !.chans[k].pc = "openBackend", !.chans[k].backend = "up"]
             ELSE HandlerReturns(nc, k)

\* backendChannel, backendRequests, err := backendConn.OpenChannel("session",
\* nil); defer backendChannel.Close()
AgentSessionOpenBackend(k, ok) ==
    /\ nc.chans[k].pc = "openBackend"
    /\ nc' = IF ok
             THEN [nc EXCEPT !.chans[k].pc = "proxy", !.chans[k].proxied = TRUE]
             ELSE HandlerReturns(nc, k)

\* The replay, the pumps and g.proxyChannel(channel, backendChannel) are
\* over: the handler returns.
AgentSessionReturns(k) ==
    /\ nc.chans[k].pc = "proxy"
    /\ nc' = HandlerReturns(nc, k)

NextSerial ==
    \/ \E type \in AgentModeChannelTypes :
          AgentClientOpensChannel(type) /\ UNCHANGED <<registryVars, gatewayVars, mn, hc, hk>>
    \/ AgentClientDisconnects /\ UNCHANGED <<registryVars, gatewayVars, mn, hc, hk>>
    \/ \E k \in Channels : AgentRangeChans(k) /\ UNCHANGED <<registryVars, gatewayVars, mn, hc, hk>>
    \/ \E k \in Channels : AgentSessionAccept(k) /\ UNCHANGED <<registryVars, gatewayVars, mn, hc, hk>>
    \/ \E k \in Channels, agent \in BOOLEAN :
          AgentSessionWindow(k, agent) /\ UNCHANGED <<registryVars, gatewayVars, mn, hc, hk>>
    \/ \E k \in Channels, ok \in BOOLEAN :
          AgentSessionDial(k, ok) /\ UNCHANGED <<registryVars, gatewayVars, mn, hc, hk>>
    \/ \E k \in Channels, ok \in BOOLEAN :
          AgentSessionOpenBackend(k, ok) /\ UNCHANGED <<registryVars, gatewayVars, mn, hc, hk>>
    \/ \E k \in Channels : AgentSessionReturns(k) /\ UNCHANGED <<registryVars, gatewayVars, mn, hc, hk>>

SpecSerial == InitSerial /\ [][NextSerial]_vars

\* C40. In AgentForwarding mode the channels of one connection are handled
\* one at a time: a channel-open has been neither accepted nor rejected
\* unless the handling of every earlier channel has returned, and at most
\* one backend connection of the client connection is up at any moment.
ChannelsOneAtATime ==
    /\ \A k, j \in Channels :
          (k < j /\ nc.chans[j].pc # "none" /\ nc.chans[j].client # "pending")
              => nc.chans[k].pc = "returned"
    /\ Cardinality({ k \in Channels : nc.chans[k].pc # "none"
                                       /\ nc.chans[k].backend = "up" }) <= 1

\* The first session is being proxied on its backend connection while a
\* second channel-open of the client waits, unanswered.
SecondChannelWaits ==
    /\ nc.chans[1].pc = "proxy"
    /\ nc.chans[1].backend = "up"
    /\ nc.chans[2].pc = "queued"
    /\ nc.chans[2].client = "pending"

(***************************************************************************)
(* Claims about the replies of an AgentForwarding session channel          *)
(* (checked under SpecAgent).                                              *)
(***************************************************************************)
\* The calls of req.Reply made for the client's n-th request.
SessionRepliesTo(n) == { i \in DOMAIN ag.replies : ag.replies[i].n = n }

\* C37. Over any execution of an AgentForwarding session channel (the
\* window and the replay of the cached requests) every request of the client
\* has at most one reply from the gateway, and a request that did not want
\* a reply has none.
AtMostOneReply ==
    ag.pc # "none" =>
        \A n \in DOMAIN ag.client :
            /\ Cardinality(SessionRepliesTo(n)) <= 1
            /\ ~ag.client[n].WantReply => SessionRepliesTo(n) = {}

(***************************************************************************)
(* The session worker of an authenticated connection builds the address    *)
(* of the backend (publickey.go handlePublicKeyMode, agent.go              *)
(* connectToBackend) while the watcher's events change the registry.       *)
(***************************************************************************)
\* info := permissions.ExtraData["devbox_info"]; backendAddr := info.PodIP +
\* ":22".  The worker reads PodIP through the pointer the callback stored,
\* without the registry's lock, when it builds the address.
BuildBackendAddr ==
    LET info == heap[cb.perms.ExtraData["devbox_info"]]
    IN  /\ Accepted
        /\ cb.fn = "publicKeyCallback"
        /\ cb.backendAddr = "<unbuilt>"
        /\ cb' = [cb EXCEPT !.backendAddr = info.PodIP \o ":22"]
        /\ UNCHANGED <<heap, fingerprintToDevbox, devboxToInfo, held>>

NextRoute ==
    \/ \E secret \in AuthSecrets :
          AddSecret(secret) /\ UNCHANGED <<lastOp, everShared, proxyVars, cb, gp, ag, processVars>>
    \/ \E secret \in AuthSecrets :
          DeleteSecret(secret) /\ UNCHANGED <<lastOp, everShared, proxyVars, cb, gp, ag, processVars>>
    \/ \E pod \in AuthPods :
          UpdatePod(pod) /\ UNCHANGED <<lastOp, everShared, proxyVars, cb, gp, ag, processVars>>
    \/ \E pod \in AuthPods :
          DeletePod(pod) /\ UNCHANGED <<lastOp, everShared, proxyVars, cb, gp, ag, processVars>>
    \/ \E user \in PresentedUsers, key \in PresentedKeys :
          CallbackStart("publicKeyCallback", user, key)
              /\ UNCHANGED <<lastOp, everShared, proxyVars, gp, ag, processVars>>
    \/ CallbackLookupName /\ UNCHANGED <<lastOp, everShared, proxyVars, gp, ag, processVars>>
    \/ CallbackCheck /\ UNCHANGED <<lastOp, everShared, proxyVars, gp, ag, processVars>>
    \/ BuildBackendAddr /\ UNCHANGED <<lastOp, everShared, proxyVars, gp, ag, processVars>>

SpecRoute == Init /\ [][NextRoute]_vars

\* C36. For any interleaving of DeletePod with the session setup of an
\* authenticated connection, the address the gateway dials is never built
\* from an empty podIP (":22"), in PublicKey mode or in AgentForwarding
\* mode.
NeverDialsEmptyPodIP == cb.backendAddr # ":22"

====
